---- MODULE Spec2Model ----
(***************************************************************************)
(* Model of the chat view of the Obsidian Claude plugin (src/main.ts):     *)
(* the tool-use loop of ClaudeChatView.sendMessage, the retry layer of     *)
(* ClaudePlugin.callClaude, the history truncation of                      *)
(* ClaudeChatView.truncateToolResults, and the event handlers of the view  *)
(* that start a turn, stop it, or replace the conversation.                *)
(*                                                                         *)
(* JavaScript runs one handler at a time; a handler gives up control only  *)
(* at an await.  Every action below is one such run-to-completion segment: *)
(* from an event (a click, a key, a promise that settles) to the next      *)
(* await of the handler.                                                   *)
(***************************************************************************)
EXTENDS Integers, Sequences, FiniteSets

\* ------------------------------------------------------------------ bounds
\* SpecView: sendMessage calls in one behaviour
MaxTurns == 2
\* SpecView: tool_use responses the endpoint gives in one behaviour
ViewRounds == 1
\* Spec: loop iterations of a turn in which the endpoint answers with any
\* content template and any status; later iterations get one-block templates
RichIters == 1
\* SpecView: the same
ViewRichIters == 1
\* SpecView: steps a younger turn may take while an older turn is in progress
MaxOverlapSteps == 2
\* SpecTruncate: sendMessage calls whose messages make up the history
MaxTurnsKept == 4
\* SpecStore: clicks on Load and on Delete in the conversation picker
MaxLoads == 1
MaxDeletes == 2
\* SpecEstimate: blocks of a content, texts appended to one content
MaxBlocks == 2
MaxAppends == 1

\* ------------------------------------------------------- program constants
maxIterations == 10
maxRetries == 3
retryDelays == <<1000, 2000, 4000>>
\* truncateToolResults and smartPruneHistory
MAX_TOOL_RESULT_LENGTH == 500
MAX_TEXT_LENGTH == 2000
keepRecent == 10
keepUntruncated == 3
keepUnpruned == 5
contextWindow == 200000
\* DEFAULT_SETTINGS, the part the chat view reads
DefaultSettings ==
    [maxHistoryMessages |-> 20, autoSummarizeThreshold |-> 60, enableSmartPruning |-> TRUE,
     autoSaveConversations |-> TRUE]
\* saveCurrentConversation: conversations kept
maxSaved == 10

\* ------------------------------------------------------------------- data
\* A text is the first n characters of a source text src, followed by the
\* pieces of tail, each the first m characters of a marker text.
Text(src, n) == [src |-> src, n |-> n, tail |-> <<>>]
NoText == Text("", 0)
RECURSIVE TailLen(_)
TailLen(tail) == IF tail = <<>> THEN 0 ELSE Head(tail).m + TailLen(Tail(tail))
TextLen(x) == x.n + TailLen(x.tail)
\* String.prototype.substring(0, len)
RECURSIVE TailPrefix(_, _)
TailPrefix(tail, len) ==
    IF tail = <<>> \/ len <= 0 THEN <<>>
    ELSE IF Head(tail).m <= len
         THEN <<Head(tail)>> \o TailPrefix(Tail(tail), len - Head(tail).m)
         ELSE <<[Head(tail) EXCEPT !.m = len]>>
Substring(x, len) ==
    IF x.n >= len THEN [src |-> x.src, n |-> len, tail |-> <<>>]
    ELSE [src |-> x.src, n |-> x.n, tail |-> TailPrefix(x.tail, len - x.n)]
\* x + marker, the marker being markerLen characters long
Concat(x, marker, markerLen) ==
    [x EXCEPT !.tail = Append(@, [marker |-> marker, m |-> markerLen])]
\* '\n\n[... truncated to save tokens ...]'
ToolResultMarkerLen == 36
\* '\n\n[... previous response truncated to save tokens ...]'
TextMarkerLen == 54

\* ContentBlock (src/main.ts interface ContentBlock): absent fields are NoText,
\* 0 and "".
TextBlock(x) ==
    [type |-> "text", text |-> x, id |-> 0, name |-> "", inputLen |-> 0,
     tool_use_id |-> 0, content |-> NoText]
ToolUseBlock(id, name, inputLen) ==
    [type |-> "tool_use", text |-> NoText, id |-> id, name |-> name,
     inputLen |-> inputLen, tool_use_id |-> 0, content |-> NoText]
ToolResultBlock(id, x) ==
    [type |-> "tool_result", text |-> NoText, id |-> 0, name |-> "",
     inputLen |-> 0, tool_use_id |-> id, content |-> x]

\* MessageParam: content is a string (isStr) or a list of blocks.
StrMessage(role, x) == [role |-> role, isStr |-> TRUE, text |-> x, blocks |-> <<>>]
BlockMessage(role, bs) == [role |-> role, isStr |-> FALSE, text |-> NoText, blocks |-> bs]

Min(S) == CHOOSE x \in S : \A y \in S : x <= y
IsToolUse(b) == b.type = "tool_use"
IsToolResult(b) == b.type = "tool_result"

\* ------------------------------------------------------- the model endpoint
\* HTTP statuses the endpoint answers with; 0 stands for requestUrl itself
\* failing (no response at all).
NetworkFailure == 0
AllStatuses == {200, 529, 429, 400, 401, 500, NetworkFailure}
StopReasons == {"end_turn", "tool_use", "max_tokens", "stop_sequence"}

\* Content templates of a response: the kinds of its blocks, in order.
\* "A" and "B" are tool_use blocks of two vault tools.  A response that ends
\* the turn of the model (end_turn) carries text only.
RichTemplates ==
    {<<"text">>, <<"A">>, <<"text", "A">>, <<"A", "B">>, <<"A", "text", "B">>, <<"U", "A">>}
\* "U" is a tool the plugin does not have
ToolName(kind) ==
    IF kind = "A" THEN "read_file" ELSE IF kind = "B" THEN "write_file" ELSE "run_command"
\* The endpoint gives every tool_use block an id of its own.
BlockId(t, it, k) == (t * 1000) + (it * 10) + k
MkBlock(kind, t, it, k) ==
    IF kind = "text" THEN TextBlock(Text("reply", 5))
    ELSE ToolUseBlock(BlockId(t, it, k), ToolName(kind), 20)
MkContent(tpl, t, it) == [k \in 1..Len(tpl) |-> MkBlock(tpl[k], t, it, k)]

NoResponse == [stop_reason |-> "", content |-> <<>>]
UserTexts == {Text("question", 40)}
\* what executeTool returns: the tool's own result or one of its error strings
ToolOutputs == {Text("result", 30)}

\* executeTool(toolName, input): the cases of its switch, and how the call
\* went: the tool did its work and returned out, or something in it threw.
KnownTools ==
    {"read_file", "search_in_file", "get_file_info", "replace_in_file", "write_file",
     "list_files", "rename_file", "delete_file", "copy_file"}
ToolOutcomes == {"done", "threw"}
\* A variant of executeTool that the tool-failure claim must tell from it:
\* what a tool throws is not caught.
executeTool_Rethrows(toolName, outcome, out) ==
    IF toolName \notin KnownTools
    THEN [returned |-> TRUE, text |-> Text("Error: Unknown tool: run_command", 32)]
    ELSE IF outcome = "threw"
    THEN [returned |-> FALSE, text |-> NoText]
    ELSE [returned |-> TRUE, text |-> out]

\* The promise settles with a string in every case (returned); the string is
\* the result, or the text of the default case or of the catch.
executeTool(toolName, outcome, out) ==
    IF toolName \notin KnownTools
    THEN [returned |-> TRUE, text |-> Text("Error: Unknown tool: run_command", 32)]
    ELSE IF outcome = "threw"
    THEN [returned |-> TRUE, text |-> Text("Error executing", 45)]
    ELSE [returned |-> TRUE, text |-> out]

\* ------------------------------------------------------------------ state
VARIABLES
    conversationHistory,   \* ClaudeChatView.conversationHistory
    isGenerating,          \* ClaudeChatView.isGenerating
    shouldStop,            \* ClaudeChatView.shouldStop
    turns,                 \* the sendMessage calls: locals and position of each
    started,               \* number of sendMessage calls made so far
    toolRounds,            \* tool_use responses granted so far
    overlap,               \* steps taken by a younger turn beside an older one
    settings,              \* ClaudePlugin.settings, the part the chat view reads
    historyToSend,         \* what the last truncateToolResults call returned
    truncations,           \* truncateToolResults calls made on the present history
    conversationSummary,   \* ClaudeChatView.conversationSummary
    historyArray,          \* the array object conversationHistory refers to
    savedConversations,    \* settings.savedConversations
    currentConversationId, \* settings.currentConversationId, 0 for ''
    saves,                 \* the saveCurrentConversation call of each sendMessage call
    clock,                 \* Date.now() and the conversation ids made so far
    used,                  \* picker clicks made so far
    tokenEstimate,         \* the last estimateTokens call: its argument and its result
    quota                  \* what the behaviour may use: sendMessage calls, tool_use responses, rich iterations

vars == <<conversationHistory, isGenerating, shouldStop, turns, started, toolRounds, overlap,
          settings, historyToSend, truncations, conversationSummary, historyArray,
          savedConversations, currentConversationId, saves, clock, used, tokenEstimate,
          quota>>
\* what the steps of a turn leave alone
truncVars == <<settings, historyToSend, truncations, tokenEstimate>>
\* the conversation of the view other than its messages, and the store
convVars == <<conversationSummary, historyArray>>
storeVars == <<savedConversations, currentConversationId, saves, clock, used>>

Turns == 1..MaxTurns

\* conversationSummary = '': no summary
NoSummary == <<>>

\* Locals of one sendMessage call (pc: the await it is suspended at) and of the
\* callClaude call it is in, followed by a record of what the call did.
IdleTurn ==
    [pc |-> "idle",
     userText |-> NoText,        \* finalMessage
     systemPrompt |-> NoSummary, \* systemPrompt: the summary it begins with
     continueLoop |-> TRUE,
     iterations |-> 0,
     response |-> NoResponse,
     idx |-> 0,                  \* block whose executeTool is awaited
     toolResults |-> <<>>,
     attempt |-> 0,              \* attemptNumber of makeRequest
     \* observations
     calls |-> 0,                \* callClaude invocations of the loop
     respCall |-> 0,             \* the invocation that returned response
     mark |-> 0,                 \* messages pushed before response came
     sent |-> <<>>,              \* the history when the pending callClaude was invoked
     statuses |-> <<>>,          \* statuses answered to the current callClaude
     delays |-> <<>>,            \* backoff delays waited in the current callClaude
     onRetry |-> <<>>,           \* onRetry(attempt, delay) invocations of it
     executed |-> <<>>,          \* ids passed to executeTool for the current response
     appended |-> <<>>,          \* messages this call pushed to the history
     error |-> "",               \* what the catch of sendMessage caught
     reports |-> {}]             \* notices shown at the end of the turn

InProgress(r) == r.pc \notin {"idle", "done"}
ActiveTurns == {t \in Turns : InProgress(turns[t])}

\* ------------------------------------------------------ history truncation
\* estimateTokens: a quarter of the characters, rounded up.
CeilDiv(a, b) == (a + b - 1) \div b
BlockChars(b) == TextLen(b.text) + TextLen(b.content) + b.inputLen
\* A variant of SumChars that the monotonicity claim must tell from it: the
\* total is assigned, not added to, so only the last block counts.
SumChars_LastOnly(blocks) ==
    IF blocks = <<>> THEN 0 ELSE BlockChars(blocks[Len(blocks)])

RECURSIVE SumChars(_)
SumChars(blocks) == IF blocks = <<>> THEN 0 ELSE BlockChars(Head(blocks)) + SumChars(Tail(blocks))
estimateTokens(m) ==
    IF m.isStr THEN CeilDiv(TextLen(m.text), 4) ELSE CeilDiv(SumChars(m.blocks), 4)
NoEstimate == [content |-> StrMessage("user", NoText), tokens |-> 0]
\* estimateTokens(content) was called
EstimateOf(content) == [content |-> content, tokens |-> estimateTokens(content)]
RECURSIVE estimateHistoryTokens(_)
estimateHistoryTokens(messages) ==
    IF messages = <<>> THEN 0
    ELSE estimateTokens(Head(messages)) + estimateHistoryTokens(Tail(messages))

\* Array.prototype.slice(-n)
LastN(s, n) == IF n = 0 \/ n >= Len(s) THEN s ELSE SubSeq(s, Len(s) - n + 1, Len(s))

\* 'ok', 'thanks', 'thank you', 'got it' in any case, or under 10 characters
Acknowledgments == {"ok", "thanks", "thank you", "got it"}
IsAcknowledgment(x) == (x.src \in Acknowledgments /\ x.tail = <<>>) \/ TextLen(x) < 10

\* A variant of PruneFrom that the pruning claim must tell from it: only the
\* last four messages are kept whatever they say.
RECURSIVE PruneFrom_KeepsFour(_, _)
PruneFrom_KeepsFour(history, i) ==
    IF i > Len(history) THEN <<>>
    ELSE LET msg == history[i]
             keep == \/ i > Len(history) - (keepUnpruned - 1)
                     \/ ~msg.isStr
                     \/ ~IsAcknowledgment(msg.text)
         IN  (IF keep THEN <<msg>> ELSE <<>>) \o PruneFrom_KeepsFour(history, i + 1)

RECURSIVE PruneFrom(_, _)
PruneFrom(history, i) ==
    IF i > Len(history) THEN <<>>
    ELSE LET msg == history[i]
             keep == \/ i > Len(history) - keepUnpruned
                     \/ ~msg.isStr
                     \/ ~IsAcknowledgment(msg.text)
         IN  (IF keep THEN <<msg>> ELSE <<>>) \o PruneFrom(history, i + 1)
smartPruneHistory(history, s) ==
    IF ~s.enableSmartPruning THEN history ELSE PruneFrom(history, 1)

\* percentageUsed > autoSummarizeThreshold
OverThreshold(messages, s) ==
    estimateHistoryTokens(messages) * 100 > s.autoSummarizeThreshold * contextWindow

\* A variant of TruncatedBlock that the idempotence claim must tell from it:
\* the marker is appended to the whole result.
TruncatedBlock_Appends(b) ==
    IF IsToolResult(b) /\ TextLen(b.content) > MAX_TOOL_RESULT_LENGTH
    THEN [b EXCEPT !.content = Concat(@, "tool result", ToolResultMarkerLen)]
    ELSE b

TruncatedBlock(b) ==
    IF IsToolResult(b) /\ TextLen(b.content) > MAX_TOOL_RESULT_LENGTH
    THEN [b EXCEPT !.content = Concat(Substring(@, MAX_TOOL_RESULT_LENGTH),
                                      "tool result", ToolResultMarkerLen)]
    ELSE b
TruncatedMessage(msg) ==
    IF ~msg.isStr
    THEN [msg EXCEPT !.blocks = [k \in 1..Len(@) |-> TruncatedBlock(@[k])]]
    ELSE IF TextLen(msg.text) > MAX_TEXT_LENGTH /\ msg.role = "assistant"
    THEN [msg EXCEPT !.text = Concat(Substring(@, MAX_TEXT_LENGTH),
                                     "previous response", TextMarkerLen)]
    ELSE msg

\* The cap on the number of messages: the last keepRecent when the estimate
\* is over the threshold (the older ones go to summarizeConversation), the
\* last maxHistoryMessages otherwise.
TrimmedHistory(pruned, s) ==
    IF Len(pruned) > s.maxHistoryMessages
    THEN IF OverThreshold(pruned, s)
         THEN LastN(pruned, keepRecent)
         ELSE LastN(pruned, s.maxHistoryMessages)
    ELSE pruned

\* A variant of truncateToolResults that the last-three claim must tell from
\* it: only the last two messages are left as they are.
truncateToolResults_KeepsTwo(history, s) ==
    LET trimmedHistory == TrimmedHistory(smartPruneHistory(history, s), s)
    IN  [i \in 1..Len(trimmedHistory) |->
            IF i > Len(trimmedHistory) - (keepUntruncated - 1)
            THEN trimmedHistory[i]
            ELSE TruncatedMessage(trimmedHistory[i])]

truncateToolResults(history, s) ==
    LET trimmedHistory == TrimmedHistory(smartPruneHistory(history, s), s)
    IN  [i \in 1..Len(trimmedHistory) |->
            IF i > Len(trimmedHistory) - keepUntruncated
            THEN trimmedHistory[i]
            ELSE TruncatedMessage(trimmedHistory[i])]

\* The summarization branch of truncateToolResults: taken when the pruned
\* history is over the message cap and the estimate over the threshold.
SummarizeBranch(history, s) ==
    LET pruned == smartPruneHistory(history, s)
    IN  Len(pruned) > s.maxHistoryMessages /\ OverThreshold(pruned, s)
\* toSummarize, `trimmedHistory.slice(0, -keepRecent)`: what the branch omits
ToSummarize(history, s) ==
    LET pruned == smartPruneHistory(history, s)
    IN  IF Len(pruned) > keepRecent THEN SubSeq(pruned, 1, Len(pruned) - keepRecent) ELSE <<>>

\* summarizeConversation: '' for no message; otherwise one entry per
\* message between the header and the footer lines: the role with the text
\* (a string content, or the text blocks joined by a blank) cut to 200
\* characters and '...', and the names of the tools used.
Shortened(x) == IF TextLen(x) > 200 THEN Concat(Substring(x, 200), "...", 3) ELSE x
IsTextBlock(b) == b.type = "text"
JoinedText(blocks) ==
    LET texts == SelectSeq(blocks, IsTextBlock)
    IN  IF texts = <<>> THEN NoText
        ELSE Text(texts[1].text.src, SumChars(texts) + Len(texts) - 1)
ToolsUsed(blocks) ==
    LET uses == SelectSeq(blocks, IsToolUse) IN [k \in 1..Len(uses) |-> uses[k].name]
SummaryEntry(msg) ==
    IF msg.isStr
    THEN [role |-> msg.role, text |-> Shortened(msg.text), tools |-> <<>>]
    ELSE [role |-> msg.role, text |-> Shortened(JoinedText(msg.blocks)),
          tools |-> ToolsUsed(msg.blocks)]
summarizeConversation(messages) == [i \in 1..Len(messages) |-> SummaryEntry(messages[i])]

\* ------------------------------------------------------ conversation store
\* A conversation name: the title the naming request returned, the preview
\* of the first user message, or 'Untitled Conversation'.
NoName == [kind |-> "", text |-> NoText]
Untitled == [kind |-> "untitled", text |-> NoText]
TitleTexts == {Text("topic", 12), Text("subject", 14)}

\* SavedConversation.  Its messages are held by reference: arr names the
\* array object.  While the view holds that array as conversationHistory the
\* content is conversationHistory; the field messages is the content from the
\* moment the view lets go of the array.
SavedConversation(id, name, timestamp, arr, messages, summary) ==
    [hole |-> FALSE, id |-> id, name |-> name, timestamp |-> timestamp,
     arr |-> arr, messages |-> messages, summary |-> summary]
\* an empty slot of the savedConversations array
Hole ==
    [hole |-> TRUE, id |-> 0, name |-> NoName, timestamp |-> 0,
     arr |-> 0, messages |-> <<>>, summary |-> NoSummary]
MessagesOf(c) == IF c.arr = historyArray THEN conversationHistory ELSE c.messages
\* The view assigns another array to conversationHistory: what refers to
\* the old array keeps the content it has now.
Released(x) == IF x.arr = historyArray THEN [x EXCEPT !.messages = conversationHistory] ELSE x
ReleasedStore == [i \in 1..Len(savedConversations) |-> Released(savedConversations[i])]
ReleasedSaves == [t \in Turns |-> Released(saves[t])]
\* `conversationHistory = []`: an array nothing else refers to
ArraysHeld ==
    {savedConversations[i].arr : i \in 1..Len(savedConversations)}
        \cup {saves[t].arr : t \in Turns}
NewArray == Min({a \in 1..(Cardinality(ArraysHeld) + 1) : a \notin ArraysHeld})

\* Locals of one saveCurrentConversation call.
NoSave ==
    [pc |-> "none", conversationId |-> 0, existingIndex |-> 0, arr |-> 0,
     messages |-> <<>>, summary |-> NoSummary,
     ended |-> <<>>,        \* observation: the history when the save was called
     overlapped |-> FALSE]  \* observation: a delete ran while the save was suspended

\* findIndex / find by id: the index of the first conversation with the id,
\* 0 when there is none, Throws when an empty slot is met first (the
\* callback reads c.id of undefined).
Throws == 0 - 1
FindIndex(store, id) ==
    LET hits == {i \in 1..Len(store) : ~store[i].hole /\ store[i].id = id}
        first == IF hits = {} THEN Len(store) + 1 ELSE Min(hits)
    IN  IF \E i \in 1..Len(store) : store[i].hole /\ i < first THEN Throws
        ELSE IF hits = {} THEN 0 ELSE first

\* savedConversations[ix] = c
AssignAt(store, ix, c) ==
    IF ix <= Len(store) THEN [store EXCEPT ![ix] = c]
    ELSE store \o [i \in 1..(ix - Len(store) - 1) |-> Hole] \o <<c>>

\* sort((a, b) => b.timestamp - a.timestamp): stable, newest first, empty
\* slots last.
InsertByTimestamp(sorted, c) ==
    LET before == {i \in 1..Len(sorted) : sorted[i].timestamp < c.timestamp}
        at == IF before = {} THEN Len(sorted) + 1 ELSE Min(before)
    IN  SubSeq(sorted, 1, at - 1) \o <<c>> \o SubSeq(sorted, at, Len(sorted))
RECURSIVE SortNewestFirst(_)
SortNewestFirst(list) ==
    IF list = <<>> THEN <<>>
    ELSE InsertByTimestamp(SortNewestFirst(SubSeq(list, 1, Len(list) - 1)), list[Len(list)])
IsHole(c) == c.hole
IsConversation(c) == ~c.hole
SortedStore(store) ==
    SortNewestFirst(SelectSeq(store, IsConversation)) \o SelectSeq(store, IsHole)
\* A variant of KeptConversations that the retention claim must tell from
\* it: the store is cut without being sorted.
KeptConversations_Unsorted(store) ==
    IF Len(store) > maxSaved THEN SubSeq(store, 1, maxSaved) ELSE store

\* `if (length > 10) savedConversations = sort(...).slice(0, 10)`
KeptConversations(store) ==
    IF Len(store) > maxSaved THEN SubSeq(SortedStore(store), 1, maxSaved) ELSE store

\* saveCurrentConversation up to the await of the naming request.
BeginSave(messages) ==
    IF ~settings.autoSaveConversations \/ Len(messages) = 0
    THEN [NoSave EXCEPT !.pc = "skipped"]
    ELSE LET id == IF currentConversationId # 0 THEN currentConversationId
                   ELSE clock.ids + 1
             ix == FindIndex(savedConversations, id)
         IN  IF ix = Throws THEN [NoSave EXCEPT !.pc = "threw"]
             ELSE [pc |-> "naming", conversationId |-> id, existingIndex |-> ix,
                   arr |-> historyArray, messages |-> <<>>,
                   summary |-> conversationSummary, ended |-> messages,
                   overlapped |-> FALSE]
\* generateConversationId was called
IdMade(sv) == sv.pc = "naming" /\ currentConversationId = 0

\* generateConversationName: the fallback of its catch.
IsUserMessage(m) == m.role = "user"
Preview(x) ==
    LET text == Substring(x, 50)
    IN  IF TextLen(text) < 50 THEN text ELSE Concat(text, "...", 3)
FallbackName(messages) ==
    LET users == SelectSeq(messages, IsUserMessage)
    IN  IF users # <<>> /\ Head(users).isStr
        THEN [kind |-> "preview", text |-> Preview(Head(users).text)]
        ELSE Untitled
\* what generateConversationName may return
NameOutcomes(messages) ==
    {[kind |-> "title", text |-> x] : x \in TitleTexts} \cup {Untitled, FallbackName(messages)}

\* A variant of WrittenStore that the store contract must tell from it: the
\* conversation is pushed whether or not its id was found.
WrittenStore_AlwaysPushes(store, sv, name, timestamp) ==
    LET c == SavedConversation(sv.conversationId, name, timestamp, sv.arr,
                               sv.messages, sv.summary)
    IN  KeptConversations(Append(store, c))

\* saveCurrentConversation after the name: the conversation is put in the
\* store, which is cut to the newest maxSaved.
WrittenStore(store, sv, name, timestamp) ==
    LET c == SavedConversation(sv.conversationId, name, timestamp, sv.arr,
                               sv.messages, sv.summary)
    IN  KeptConversations(IF sv.existingIndex >= 1
                          THEN AssignAt(store, sv.existingIndex, c)
                          ELSE Append(store, c))

\* loadConversation: null when find finds no conversation with the id;
\* otherwise its messages (the array itself) and its summary.
Null == [result |-> "null", arr |-> 0, messages |-> <<>>, summary |-> NoSummary]
loadConversation(store, id) ==
    LET ix == FindIndex(store, id)
    IN  IF ix = Throws THEN [Null EXCEPT !.result = "threw"]
        ELSE IF ix = 0 THEN Null
        ELSE [result |-> "found", arr |-> store[ix].arr,
              messages |-> MessagesOf(store[ix]), summary |-> store[ix].summary]

\* deleteConversation: filter skips the empty slots.
deleteConversation(store, id) ==
    LET Other(c) == ~c.hole /\ c.id # id IN SelectSeq(store, Other)

StoredIds(store) == {store[i].id : i \in {j \in 1..Len(store) : ~store[j].hole}}
HasHole(store) == \E i \in 1..Len(store) : store[i].hole

\* No sendMessage call made, nothing truncated or estimated, no picker click.
InitCalls ==
    /\ isGenerating = FALSE
    /\ shouldStop = FALSE
    /\ turns = [t \in Turns |-> IdleTurn]
    /\ started = 0
    /\ toolRounds = 0
    /\ overlap = 0
    /\ historyToSend = <<>>
    /\ truncations = 0
    /\ saves = [t \in Turns |-> NoSave]
    /\ used = [loads |-> 0, deletes |-> 0]
    /\ tokenEstimate = NoEstimate

\* The view after onOpen with no conversation restored, the store empty.
InitView ==
    /\ InitCalls
    /\ conversationHistory = <<>>
    /\ conversationSummary = NoSummary
    /\ historyArray = 1
    /\ savedConversations = <<>>
    /\ currentConversationId = 0
    /\ clock = [now |-> 1, ids |-> 0]

\* One turn: a single sendMessage call, with every answer the endpoint can
\* give in each of its maxIterations iterations.
Init ==
    /\ InitView
    /\ settings = DefaultSettings
    /\ quota = [turns |-> 1, rounds |-> maxIterations, rich |-> RichIters,
                loads |-> 0, deletes |-> 0,
                overlap |-> MaxOverlapSteps]

\* ------------------------------------------------- sendMessage: the loop
\* A younger turn runs beside an older one for quota.overlap steps; after
\* that the older turn is the one whose awaits settle first.
OlderInProgress(t) == \E u \in Turns : u < t /\ InProgress(turns[u])
MayStep(t) == ~OlderInProgress(t) \/ overlap < quota.overlap

\* The post-loop reports and the way into finally (src/main.ts 1893-1909).
AfterLoop(r, stop) ==
    LET r1 == IF r.iterations >= maxIterations
              THEN [r EXCEPT !.reports = @ \cup {"maxIterations"}]
              ELSE r
    IN  IF stop
        THEN [r1 EXCEPT !.pc = "uiStop", !.reports = @ \cup {"stopped"}]
        ELSE [r1 EXCEPT !.pc = "save"]

\* The while condition, and the head of an iteration up to the await of
\* requestUrl inside callClaude (src/main.ts 1746-1764, 727-789).
EnterLoop(r, stop) ==
    IF r.continueLoop /\ r.iterations < maxIterations /\ ~stop
    THEN [r EXCEPT !.pc = "request", !.iterations = @ + 1, !.calls = @ + 1,
                   !.attempt = 1, !.statuses = <<>>, !.delays = <<>>,
                   !.onRetry = <<>>]
    ELSE AfterLoop(r, stop)

\* catch of sendMessage: the error message is shown, then finally.
Catch(r, e) == [r EXCEPT !.pc = "save", !.error = e, !.reports = @ \cup {"error"}]

\* conversationSummary once truncateToolResults(history) was called and
\* the promise of summarizeConversation has settled.
SummaryAfter(history) ==
    IF SummarizeBranch(history, settings)
    THEN summarizeConversation(ToSummarize(history, settings))
    ELSE conversationSummary

\* buildSystemPrompt: the prompt begins with the summary when there is one.
buildSystemPrompt == conversationSummary

\* A variant of TurnStep that the reset claim must tell from it: finally
\* leaves shouldStop as it is.
TurnStep_KeepsStop(t, r2, h2, gen, stop) ==
    /\ turns' = [turns EXCEPT ![t] =
                    IF r2.calls > turns[t].calls THEN [r2 EXCEPT !.sent = h2]
                    ELSE IF r2.pc \in {"request", "backoff", "save"} THEN r2
                    ELSE [r2 EXCEPT !.sent = <<>>]]
    /\ conversationHistory' = h2
    /\ isGenerating' = IF r2.pc = "save" THEN FALSE ELSE gen
    /\ shouldStop' = stop
    /\ overlap' = IF OlderInProgress(t) THEN overlap + 1 ELSE overlap
    /\ saves' = IF r2.pc = "save" THEN [saves EXCEPT ![t] = BeginSave(h2)] ELSE saves
    /\ clock' = IF r2.pc = "save" /\ IdMade(BeginSave(h2))
                THEN [clock EXCEPT !.ids = @ + 1] ELSE clock
    /\ conversationSummary' =
          IF r2.calls > turns[t].calls THEN SummaryAfter(h2) ELSE conversationSummary
    /\ UNCHANGED <<started, quota, truncVars, historyArray, savedConversations,
                   currentConversationId, used>>

\* One step of turn t: its locals become r2 and the history h2; gen and stop
\* are the flags unless the step ran into finally, which resets both and
\* calls saveCurrentConversation(conversationHistory, conversationSummary).
\* A step that calls callClaude has called truncateToolResults before, whose
\* summarization branch leaves the summary of the messages it omitted as
\* conversationSummary once the step is over.
TurnStep(t, r2, h2, gen, stop) ==
    /\ turns' = [turns EXCEPT ![t] =
                    IF r2.calls > turns[t].calls THEN [r2 EXCEPT !.sent = h2]
                    ELSE IF r2.pc \in {"request", "backoff", "save"} THEN r2
                    ELSE [r2 EXCEPT !.sent = <<>>]]
    /\ conversationHistory' = h2
    /\ isGenerating' = IF r2.pc = "save" THEN FALSE ELSE gen
    /\ shouldStop' = IF r2.pc = "save" THEN FALSE ELSE stop
    /\ overlap' = IF OlderInProgress(t) THEN overlap + 1 ELSE overlap
    /\ saves' = IF r2.pc = "save" THEN [saves EXCEPT ![t] = BeginSave(h2)] ELSE saves
    /\ clock' = IF r2.pc = "save" /\ IdMade(BeginSave(h2))
                THEN [clock EXCEPT !.ids = @ + 1] ELSE clock
    /\ conversationSummary' =
          IF r2.calls > turns[t].calls THEN SummaryAfter(h2) ELSE conversationSummary
    /\ UNCHANGED <<started, quota, truncVars, historyArray, savedConversations,
                   currentConversationId, used>>

Pushed(r, m) == [r EXCEPT !.appended = Append(@, m)]

\* sendMessage up to its first await, parseWikilinks (src/main.ts 1645-1657).
StartSend(text) ==
    /\ started < quota.turns
    /\ started' = started + 1
    /\ turns' = [turns EXCEPT ![started + 1] = [@ EXCEPT !.pc = "parse", !.userText = text]]
    /\ UNCHANGED <<conversationHistory, isGenerating, shouldStop, toolRounds, overlap, quota,
                   truncVars, convVars, storeVars>>

\* keydown handler of the input area: Enter sends.
EnterKey == \E text \in UserTexts : StartSend(text)

\* click handler of the send button: stop while generating, send otherwise.
SendButtonClick ==
    IF isGenerating
    THEN /\ shouldStop' = TRUE
         /\ UNCHANGED <<conversationHistory, isGenerating, turns, started, toolRounds, overlap,
                        quota, truncVars, convVars, storeVars>>
    ELSE \E text \in UserTexts : StartSend(text)

\* newConversation, from the confirm button of the clear dialog, which the
\* clear button opens when the history is not empty.
NewConversation ==
    /\ Len(conversationHistory) > 0
    /\ conversationHistory' = <<>>
    /\ historyArray' = NewArray
    /\ conversationSummary' = NoSummary
    /\ currentConversationId' = 0
    /\ savedConversations' = ReleasedStore
    /\ saves' = ReleasedSaves
    /\ UNCHANGED <<isGenerating, shouldStop, turns, started, toolRounds, overlap, quota,
                   truncVars, clock, used>>

\* parseWikilinks settled: the user message is pushed; await addMessageToUI.
UserMessagePushed(t) ==
    LET r == turns[t]
        m == StrMessage("user", r.userText)
    IN  /\ r.pc = "parse"
        /\ MayStep(t)
        /\ TurnStep(t, Pushed([r EXCEPT !.pc = "uiUser"], m),
                    Append(conversationHistory, m), isGenerating, shouldStop)
        /\ UNCHANGED toolRounds

\* addMessageToUI settled: the flags are set and the loop is entered.
LoopStarted(t) ==
    LET r == turns[t]
    IN  /\ r.pc = "uiUser"
        /\ MayStep(t)
        /\ TurnStep(t, EnterLoop([r EXCEPT !.systemPrompt = buildSystemPrompt], FALSE),
                    conversationHistory, TRUE, FALSE)
        /\ UNCHANGED toolRounds

\* ------------------------------------------------- callClaude: makeRequest
\* The endpoint answers in full in the first quota.rich iterations of a turn.
Rich(r) == r.iterations <= quota.rich
StatusesFor(r) == IF Rich(r) THEN AllStatuses ELSE {200, 429}
TemplatesFor(r, sr) ==
    IF sr = "end_turn" THEN {<<"text">>} \cup (IF Rich(r) THEN {<<"text", "text">>} ELSE {})
    ELSE IF Rich(r) THEN RichTemplates
    ELSE IF sr = "tool_use" THEN {<<"A">>}
    ELSE IF sr = "max_tokens" THEN {<<"text">>, <<"A">>}
    ELSE {<<"text">>}

\* Variants of IsRetryable that the retry claims must tell from it: one gives
\* up a retry early, the other also retries rate-limit answers.
IsRetryable_OneShort(status, attemptNumber) == status = 529 /\ attemptNumber < maxRetries
IsRetryable_RateLimit(status, attemptNumber) ==
    status \in {529, 429} /\ attemptNumber <= maxRetries

\* `response.status === 529 && attemptNumber <= maxRetries`
IsRetryable(status, attemptNumber) == status = 529 /\ attemptNumber <= maxRetries

\* The backoff timer fired: makeRequest(attemptNumber + 1) sends again.
BackoffElapsed(t) ==
    LET r == turns[t]
    IN  /\ r.pc = "backoff"
        /\ MayStep(t)
        /\ TurnStep(t, [r EXCEPT !.pc = "request",
                                 !.delays = Append(@, retryDelays[r.attempt]),
                                 !.attempt = @ + 1],
                    conversationHistory, isGenerating, shouldStop)
        /\ UNCHANGED toolRounds

\* A status that is not 200, or requestUrl throwing.  A retryable one tells
\* onRetry and awaits the backoff; any other makes makeRequest throw, which
\* sendMessage catches.
OnFailure(r, status) ==
    IF IsRetryable(status, r.attempt)
    THEN [r EXCEPT !.pc = "backoff",
                   !.statuses = Append(@, status),
                   !.onRetry = Append(@, <<r.attempt, retryDelays[r.attempt]>>)]
    ELSE Catch([r EXCEPT !.statuses = Append(@, status)], "request failed")

ResponseNot200(t) ==
    LET r == turns[t]
    IN  /\ r.pc = "request"
        /\ MayStep(t)
        /\ \E status \in StatusesFor(r) \ {200} :
              TurnStep(t, OnFailure(r, status), conversationHistory, isGenerating, shouldStop)
        /\ UNCHANGED toolRounds

\* --------------------------------------- sendMessage: branches on stop_reason
Max(S) == CHOOSE x \in S : \A y \in S : x >= y
\* Variant of NextTool that takes the tool_use blocks from the back.
NextTool_Backwards(content, from) ==
    LET S == {k \in 1..Len(content) : IsToolUse(content[k]) /\ (from = 0 \/ k < from)}
    IN  IF S = {} THEN 0 ELSE Max(S)
\* the next tool_use block after position from, 0 when there is none
NextTool(content, from) ==
    LET S == {k \in (from + 1)..Len(content) : IsToolUse(content[k])}
    IN  IF S = {} THEN 0 ELSE Min(S)

HasToolUse(content) == \E k \in 1..Len(content) : IsToolUse(content[k])

\* Variant of FinishTools that goes on with the loop after max_tokens too.
FinishTools_GoesOn(r, h, stop) ==
    LET u == BlockMessage("user", r.toolResults)
    IN  [h |-> Append(h, u), r |-> EnterLoop(Pushed([r EXCEPT !.idx = 0], u), stop)]

\* All tool calls of the response are done: the tool_result message is pushed.
\* After tool_use the loop goes on; after max_tokens the notice is shown.
FinishTools(r, h, stop) ==
    LET u == BlockMessage("user", r.toolResults)
        r1 == Pushed([r EXCEPT !.idx = 0], u)
    IN  [h |-> Append(h, u),
         r |-> IF r.response.stop_reason = "tool_use"
               THEN EnterLoop(r1, stop)
               ELSE [r1 EXCEPT !.pc = "uiTruncNotice", !.reports = @ \cup {"truncated"}]]

\* A variant of StartTools that the cancellation claim must tell from it:
\* the stop flag is looked at before the tools are run.
StartTools_ChecksStop(r, h, stop) ==
    LET content == r.response.content
        a == BlockMessage("assistant", content)
        k == NextTool(content, 0)
        r1 == Pushed(r, a)
    IN  IF stop THEN [h |-> Append(h, a), r |-> AfterLoop(r1, stop)]
        ELSE IF k = 0
        THEN FinishTools(r1, Append(h, a), stop)
        ELSE [h |-> Append(h, a),
              r |-> [r1 EXCEPT !.pc = "tool", !.idx = k, !.executed = <<content[k].id>>]]

\* The assistant message is pushed and the first executeTool is awaited.
StartTools(r, h, stop) ==
    LET content == r.response.content
        a == BlockMessage("assistant", content)
        k == NextTool(content, 0)
        r1 == Pushed(r, a)
    IN  IF k = 0
        THEN FinishTools(r1, Append(h, a), stop)
        ELSE [h |-> Append(h, a),
              r |-> [r1 EXCEPT !.pc = "tool", !.idx = k, !.executed = <<content[k].id>>]]

\* A variant of OnResponse that the stop-reason claim must tell from it: a
\* stop reason it does not know is taken for the end of the turn.
OnResponse_Lenient(r, h, stop) ==
    LET sr == r.response.stop_reason
    IN  CASE sr = "tool_use" -> StartTools(r, h, stop)
          [] sr = "max_tokens" ->
                IF HasToolUse(r.response.content)
                THEN StartTools(r, h, stop)
                ELSE [h |-> h, r |-> [r EXCEPT !.pc = "uiTruncText"]]
          [] OTHER -> [h |-> h, r |-> [r EXCEPT !.pc = "uiEnd"]]

OnResponse(r, h, stop) ==
    LET sr == r.response.stop_reason
    IN  CASE sr = "end_turn" -> [h |-> h, r |-> [r EXCEPT !.pc = "uiEnd"]]
          [] sr = "tool_use" -> StartTools(r, h, stop)
          [] sr = "max_tokens" ->
                IF HasToolUse(r.response.content)
                THEN StartTools(r, h, stop)
                ELSE [h |-> h, r |-> [r EXCEPT !.pc = "uiTruncText"]]
          [] OTHER -> [h |-> h, r |-> Catch(r, "unexpected stop reason")]

\* Status 200: callClaude returns the response and the loop branches on it.
ResponseOk(t) ==
    LET r == turns[t]
    IN  /\ r.pc = "request"
        /\ MayStep(t)
        /\ \E sr \in StopReasons : \E tpl \in TemplatesFor(r, sr) :
              LET resp == [stop_reason |-> sr, content |-> MkContent(tpl, t, r.iterations)]
                  post == OnResponse([r EXCEPT !.response = resp,
                                               !.statuses = Append(@, 200),
                                               !.respCall = r.calls,
                                               !.mark = Len(r.appended),
                                               !.toolResults = <<>>,
                                               !.executed = <<>>],
                                     conversationHistory, shouldStop)
              IN  /\ sr = "tool_use" => toolRounds < quota.rounds
                  /\ toolRounds' = IF sr = "tool_use" THEN toolRounds + 1 ELSE toolRounds
                  /\ TurnStep(t, post.r, post.h, isGenerating, shouldStop)

\* executeTool returned: its result is collected and the next tool_use block
\* is executed, or the results are pushed.
\* In the behaviours checked the tool that throws is write_file, in the
\* iterations whose answers are drawn from the rich sets.
OutcomesFor(r) ==
    IF Rich(r) /\ r.response.content[r.idx].name = "write_file" THEN ToolOutcomes
    ELSE {"done"}
ToolReturned(t) ==
    LET r == turns[t]
        content == r.response.content
    IN  /\ r.pc = "tool"
        /\ MayStep(t)
        /\ \E outcome \in OutcomesFor(r), out \in ToolOutputs :
              LET result == executeTool(content[r.idx].name, outcome, out)
                  res == Append(r.toolResults,
                                ToolResultBlock(content[r.idx].id, result.text))
                  k == NextTool(content, r.idx)
                  post == IF ~result.returned
                          THEN [h |-> conversationHistory, r |-> Catch(r, "tool failed")]
                          ELSE IF k = 0
                          THEN FinishTools([r EXCEPT !.toolResults = res],
                                           conversationHistory, shouldStop)
                          ELSE [h |-> conversationHistory,
                                r |-> [r EXCEPT !.toolResults = res, !.idx = k,
                                                !.executed = Append(@, content[k].id)]]
              IN  TurnStep(t, post.r, post.h, isGenerating, shouldStop)
        /\ UNCHANGED toolRounds

\* Variant of AssistantShown that leaves continueLoop as it is.
AssistantShown_GoesOn(t) ==
    LET r == turns[t]
        a == BlockMessage("assistant", r.response.content)
    IN  /\ r.pc = "uiEnd"
        /\ MayStep(t)
        /\ TurnStep(t, EnterLoop(Pushed(r, a), shouldStop),
                    Append(conversationHistory, a), isGenerating, shouldStop)
        /\ UNCHANGED toolRounds

\* end_turn: the text was shown; the assistant message is pushed, loop ends.
AssistantShown(t) ==
    LET r == turns[t]
        a == BlockMessage("assistant", r.response.content)
    IN  /\ r.pc = "uiEnd"
        /\ MayStep(t)
        /\ TurnStep(t, EnterLoop(Pushed([r EXCEPT !.continueLoop = FALSE], a), shouldStop),
                    Append(conversationHistory, a), isGenerating, shouldStop)
        /\ UNCHANGED toolRounds

\* Variant of PartialShown that pushes the partial text and goes on with the
\* loop.
PartialShown_GoesOn(t) ==
    LET r == turns[t]
        a == BlockMessage("assistant", r.response.content)
    IN  /\ r.pc = "uiTruncText"
        /\ MayStep(t)
        /\ TurnStep(t, EnterLoop(Pushed(r, a), shouldStop),
                    Append(conversationHistory, a), isGenerating, shouldStop)
        /\ UNCHANGED toolRounds

\* max_tokens without tool_use: the partial text was shown and is pushed.
PartialShown(t) ==
    LET r == turns[t]
        a == BlockMessage("assistant", r.response.content)
    IN  /\ r.pc = "uiTruncText"
        /\ MayStep(t)
        /\ TurnStep(t, Pushed([r EXCEPT !.pc = "uiTruncNotice",
                                        !.reports = @ \cup {"truncated"}], a),
                    Append(conversationHistory, a), isGenerating, shouldStop)
        /\ UNCHANGED toolRounds

\* max_tokens: the truncation notice was shown; continueLoop = false.
TruncationNoticeShown(t) ==
    LET r == turns[t]
    IN  /\ r.pc = "uiTruncNotice"
        /\ MayStep(t)
        /\ TurnStep(t, EnterLoop([r EXCEPT !.continueLoop = FALSE], shouldStop),
                    conversationHistory, isGenerating, shouldStop)
        /\ UNCHANGED toolRounds

\* The "stopped by user" message was shown: finally.
StopNoticeShown(t) ==
    LET r == turns[t]
    IN  /\ r.pc = "uiStop"
        /\ MayStep(t)
        /\ TurnStep(t, [r EXCEPT !.pc = "save"], conversationHistory, isGenerating, shouldStop)
        /\ UNCHANGED toolRounds

\* generateConversationName settled: the conversation is written to the
\* store under the id chosen before the await; await saveSettings.
ConversationNamed(t) ==
    LET sv == saves[t]
    IN  /\ turns[t].pc = "save"
        /\ sv.pc = "naming"
        /\ MayStep(t)
        /\ \E name \in NameOutcomes(MessagesOf(sv)) :
              savedConversations' = WrittenStore(savedConversations, sv, name, clock.now)
        /\ currentConversationId' = sv.conversationId
        /\ clock' = [clock EXCEPT !.now = @ + 1]
        /\ saves' = [saves EXCEPT ![t].pc = "settings"]
        /\ overlap' = IF OlderInProgress(t) THEN overlap + 1 ELSE overlap
        /\ UNCHANGED <<conversationHistory, isGenerating, shouldStop, turns, started,
                       toolRounds, quota, truncVars, convVars, used>>

\* saveCurrentConversation settled: sendMessage returns, its locals are gone.
Saved(t) ==
    LET r == turns[t]
    IN  /\ r.pc = "save"
        /\ saves[t].pc \in {"skipped", "threw", "settings"}
        /\ MayStep(t)
        /\ TurnStep(t, [IdleTurn EXCEPT !.pc = "done"], conversationHistory, isGenerating, shouldStop)
        /\ UNCHANGED toolRounds

\* The conversation picker (showConversationPicker): it lists the stored
\* conversations, newest first; reading the name of an empty slot throws.
ConversationIds == {1, 2, maxSaved + 1}
Adopted(x, arr) == IF x.arr = arr THEN [x EXCEPT !.messages = <<>>] ELSE x
PickerShows(id) == ~HasHole(savedConversations) /\ id \in StoredIds(savedConversations)

\* click on Load: loadConversation, the view takes the stored array as its
\* history, then loadPreviousConversation renders it.
LoadClicked(id) ==
    LET c == loadConversation(savedConversations, id)
    IN  /\ used.loads < quota.loads
        /\ PickerShows(id)
        /\ c.result = "found"
        /\ conversationHistory' = c.messages
        /\ historyArray' = c.arr
        /\ conversationSummary' = c.summary
        /\ currentConversationId' = id
        /\ savedConversations' =
              [i \in 1..Len(savedConversations) |-> Adopted(ReleasedStore[i], c.arr)]
        /\ saves' = [t \in Turns |-> Adopted(ReleasedSaves[t], c.arr)]
        /\ used' = [used EXCEPT !.loads = @ + 1]
        /\ UNCHANGED <<isGenerating, shouldStop, turns, started, toolRounds, overlap, quota,
                       truncVars, clock>>

\* click on Delete: deleteConversation.
DeleteClicked(id) ==
    /\ used.deletes < quota.deletes
    /\ PickerShows(id)
    /\ savedConversations' = deleteConversation(savedConversations, id)
    /\ currentConversationId' = IF currentConversationId = id THEN 0 ELSE currentConversationId
    /\ used' = [used EXCEPT !.deletes = @ + 1]
    /\ saves' = [t \in Turns |-> IF saves[t].pc = "naming"
                                  THEN [saves[t] EXCEPT !.overlapped = TRUE]
                                  ELSE saves[t]]
    /\ UNCHANGED <<conversationHistory, isGenerating, shouldStop, turns, started, toolRounds,
                   overlap, quota, truncVars, convVars, clock>>

Next ==
    \/ EnterKey
    \/ SendButtonClick
    \/ NewConversation
    \/ \E t \in Turns : UserMessagePushed(t)
    \/ \E t \in Turns : LoopStarted(t)
    \/ \E t \in Turns : ResponseOk(t)
    \/ \E t \in Turns : ResponseNot200(t)
    \/ \E t \in Turns : BackoffElapsed(t)
    \/ \E t \in Turns : ToolReturned(t)
    \/ \E t \in Turns : AssistantShown(t)
    \/ \E t \in Turns : PartialShown(t)
    \/ \E t \in Turns : TruncationNoticeShown(t)
    \/ \E t \in Turns : StopNoticeShown(t)
    \/ \E t \in Turns : ConversationNamed(t)
    \/ \E t \in Turns : Saved(t)

Spec == Init /\ [][Next]_vars

\* The store as loadSettings read it from disk, with n conversations saved
\* in earlier sessions (each with messages of its own), and the view after
\* onOpen: loadPreviousConversation made the current conversation, if there
\* is one, the history.
StoreSizes == {1, maxSaved}
StoredName == [kind |-> "title", text |-> Text("topic", 12)]
StoredMessages(id) ==
    <<StrMessage("user", Text("question", 40 + id)),
      BlockMessage("assistant", <<TextBlock(Text("reply", 5))>>)>>
\* the conversations in the order of their saves, or as a save that cut the
\* store left them, followed by later saves
StoredTimestamp(order, n, i) ==
    IF order = "pushed" THEN i ELSE ((i + 2) % n) + 1
StoredConversations(order, n, current) ==
    [i \in 1..n |->
        SavedConversation(i, StoredName, StoredTimestamp(order, n, i), i,
                          IF i = current THEN <<>> ELSE StoredMessages(i), NoSummary)]
RestoredView ==
    \E n \in StoreSizes, order \in {"pushed", "cut"}, current \in {0, 1, maxSaved} :
        /\ current <= n
        /\ savedConversations = StoredConversations(order, n, current)
        /\ currentConversationId = current
        /\ historyArray = IF current = 0 THEN n + 1 ELSE current
        /\ conversationHistory = IF current = 0 THEN <<>> ELSE StoredMessages(current)
        /\ conversationSummary = NoSummary
        /\ clock = [now |-> n + 1, ids |-> n]
InitStore ==
    /\ InitCalls
    /\ settings = DefaultSettings
    /\ quota = [turns |-> 1, rounds |-> 0, rich |-> 0,
                loads |-> MaxLoads, deletes |-> MaxDeletes,
                overlap |-> MaxOverlapSteps]
    /\ RestoredView

\* The user sends one message and does not stop it; the endpoint is not
\* overloaded and asks for no tool round.
NextStore ==
    \/ EnterKey
    \/ NewConversation
    \/ \E t \in Turns : UserMessagePushed(t)
    \/ \E t \in Turns : LoopStarted(t)
    \/ \E t \in Turns : ResponseOk(t)
    \/ \E t \in Turns : ResponseNot200(t)
    \/ \E t \in Turns : ToolReturned(t)
    \/ \E t \in Turns : AssistantShown(t)
    \/ \E t \in Turns : PartialShown(t)
    \/ \E t \in Turns : TruncationNoticeShown(t)
    \/ \E t \in Turns : ConversationNamed(t)
    \/ \E t \in Turns : Saved(t)
    \/ \E id \in ConversationIds : LoadClicked(id)
    \/ \E id \in ConversationIds : DeleteClicked(id)

SpecStore == InitStore /\ [][NextStore]_vars

\* The same with auto-save switched off in the settings tab: onOpen
\* restores no conversation (loadPreviousConversation returns at its first
\* line), and the save of a turn returns at its first line.
UnrestoredView ==
    \E n \in StoreSizes, order \in {"pushed", "cut"}, current \in {0, 1, maxSaved} :
        /\ current <= n
        /\ savedConversations = StoredConversations(order, n, 0)
        /\ currentConversationId = current
        /\ historyArray = n + 1
        /\ conversationHistory = <<>>
        /\ conversationSummary = NoSummary
        /\ clock = [now |-> n + 1, ids |-> n]
InitManual ==
    /\ InitCalls
    /\ settings = [DefaultSettings EXCEPT !.autoSaveConversations = FALSE]
    /\ quota = [turns |-> 1, rounds |-> 0, rich |-> 0,
                loads |-> MaxLoads, deletes |-> MaxDeletes,
                overlap |-> MaxOverlapSteps]
    /\ UnrestoredView

NextManual ==
    \/ EnterKey
    \/ NewConversation
    \/ \E t \in Turns : UserMessagePushed(t)
    \/ \E t \in Turns : LoopStarted(t)
    \/ \E t \in Turns : ResponseOk(t)
    \/ \E t \in Turns : ResponseNot200(t)
    \/ \E t \in Turns : ToolReturned(t)
    \/ \E t \in Turns : AssistantShown(t)
    \/ \E t \in Turns : PartialShown(t)
    \/ \E t \in Turns : TruncationNoticeShown(t)
    \/ \E t \in Turns : Saved(t)
    \/ \E id \in ConversationIds : LoadClicked(id)
    \/ \E id \in ConversationIds : DeleteClicked(id)

SpecManual == InitManual /\ [][NextManual]_vars

\* The view with several sendMessage calls, one after or beside the other,
\* auto-save switched off in the settings tab: every save returns at once.
InitSeveral ==
    /\ InitView
    /\ settings = [DefaultSettings EXCEPT !.autoSaveConversations = FALSE]
    /\ quota = [turns |-> MaxTurns, rounds |-> ViewRounds, rich |-> ViewRichIters,
                loads |-> 0, deletes |-> 0,
                overlap |-> MaxOverlapSteps]

NextView ==
    \/ EnterKey
    \/ SendButtonClick
    \/ NewConversation
    \/ \E t \in Turns : UserMessagePushed(t)
    \/ \E t \in Turns : LoopStarted(t)
    \/ \E t \in Turns : ResponseOk(t)
    \/ \E t \in Turns : ResponseNot200(t)
    \/ \E t \in Turns : BackoffElapsed(t)
    \/ \E t \in Turns : ToolReturned(t)
    \/ \E t \in Turns : AssistantShown(t)
    \/ \E t \in Turns : PartialShown(t)
    \/ \E t \in Turns : TruncationNoticeShown(t)
    \/ \E t \in Turns : StopNoticeShown(t)
    \/ \E t \in Turns : Saved(t)

SpecView == InitSeveral /\ [][NextView]_vars

\* ------------------------------------------------ a turn and a later turn
\* Two sendMessage calls, auto-save off; the awaits of the second settle
\* once the first has returned.  Each call may run all its maxIterations
\* iterations.
InitLive ==
    /\ InitView
    /\ settings = [DefaultSettings EXCEPT !.autoSaveConversations = FALSE]
    /\ quota = [turns |-> 2, rounds |-> maxIterations, rich |-> 0,
                loads |-> 0, deletes |-> 0, overlap |-> 0]

\* the continuations of sendMessage call t
TurnAction(t) ==
    \/ UserMessagePushed(t)
    \/ LoopStarted(t)
    \/ ResponseOk(t)
    \/ ResponseNot200(t)
    \/ ToolReturned(t)
    \/ AssistantShown(t)
    \/ PartialShown(t)
    \/ TruncationNoticeShown(t)
    \/ StopNoticeShown(t)
    \/ Saved(t)

NextLive ==
    \/ EnterKey
    \/ SendButtonClick
    \/ \E t \in Turns : TurnAction(t)

\* Every request and every tool execution returns or fails, and the event
\* loop runs the continuation of every settled promise: a call that can
\* take a step takes one.
Fairness == \A t \in Turns : WF_vars(TurnAction(t))

SpecLive == InitLive /\ [][NextLive]_vars /\ Fairness

\* --------------------------------------- histories for truncateToolResults
\* What one sendMessage call pushes to the history: its user message, an
\* assistant tool_use message and a tool_result message per tool round-trip,
\* and the assistant message of the end_turn response when it got that far.
TurnShapes ==
    {[user |-> Text("question", 40), rounds |-> <<>>, answered |-> TRUE],
     [user |-> Text("ok", 2), rounds |-> <<>>, answered |-> TRUE],
     [user |-> Text("note", 600000), rounds |-> <<>>, answered |-> TRUE],
     [user |-> Text("question", 40), rounds |-> <<Text("result", 600)>>, answered |-> TRUE],
     [user |-> Text("question", 40), rounds |-> <<Text("result", 30)>>, answered |-> FALSE],
     [user |-> Text("question", 40), rounds |-> <<Text("result", 600)>>, answered |-> FALSE]}
RECURSIVE RoundMessages(_, _, _)
RoundMessages(rounds, t, it) ==
    IF rounds = <<>> THEN <<>>
    ELSE <<BlockMessage("assistant", MkContent(<<"A">>, t, it)),
           BlockMessage("user", <<ToolResultBlock(BlockId(t, it, 1), Head(rounds))>>)>>
         \o RoundMessages(Tail(rounds), t, it + 1)
TurnMessages(shape, t) ==
    <<StrMessage("user", shape.user)>>
    \o RoundMessages(shape.rounds, t, 1)
    \o (IF shape.answered
        THEN <<BlockMessage("assistant", MkContent(<<"text">>, t, Len(shape.rounds) + 1))>>
        ELSE <<>>)
IsUserText(m) == m.role = "user" /\ m.isStr
TurnsOf(h) == Len(SelectSeq(h, IsUserText))

\* The requests of a call that pushed msgs: one after its user message and
\* one after each tool_result message.  The summary it leaves is that of the
\* last request whose truncation took the summarization branch.
SummaryAfterTurn(history, msgs) ==
    LET branch == {k \in 1..Len(msgs) :
                      /\ msgs[k].role = "user"
                      /\ SummarizeBranch(history \o SubSeq(msgs, 1, k), settings)}
    IN  IF branch = {} THEN conversationSummary
        ELSE SummaryAfter(history \o SubSeq(msgs, 1, Max(branch)))

\* A sendMessage call ran from start to end on the history.
TurnRan ==
    /\ TurnsOf(conversationHistory) < MaxTurnsKept
    /\ \E shape \in TurnShapes :
          LET msgs == TurnMessages(shape, TurnsOf(conversationHistory) + 1)
          IN  /\ conversationHistory' = conversationHistory \o msgs
              /\ conversationSummary' = SummaryAfterTurn(conversationHistory, msgs)
    /\ historyToSend' = <<>>
    /\ truncations' = 0
    /\ UNCHANGED <<isGenerating, shouldStop, turns, started, toolRounds, overlap, settings, quota,
                   historyArray, storeVars, tokenEstimate>>

\* `const historyToSend = this.truncateToolResults(this.conversationHistory)`
Truncate ==
    /\ truncations = 0
    /\ historyToSend' = truncateToolResults(conversationHistory, settings)
    /\ conversationSummary' = SummaryAfter(conversationHistory)
    /\ truncations' = 1
    /\ UNCHANGED <<conversationHistory, isGenerating, shouldStop, turns, started, toolRounds,
                   overlap, settings, quota, historyArray, storeVars, tokenEstimate>>

\* Settings the settings tab can store.
SettingsChoices ==
    {[maxHistoryMessages |-> m, autoSummarizeThreshold |-> 60, enableSmartPruning |-> p,
      autoSaveConversations |-> TRUE] :
        m \in {2, 3, 20}, p \in BOOLEAN}

InitTruncate ==
    /\ InitView
    /\ settings \in SettingsChoices
    /\ quota = [turns |-> 0, rounds |-> 0, rich |-> 0, loads |-> 0, deletes |-> 0,
                overlap |-> MaxOverlapSteps]

\* truncateToolResults applied to what it returned
TruncateAgain ==
    /\ truncations = 1
    /\ historyToSend' = truncateToolResults(historyToSend, settings)
    /\ conversationSummary' = SummaryAfter(historyToSend)
    /\ truncations' = 2
    /\ UNCHANGED <<conversationHistory, isGenerating, shouldStop, turns, started, toolRounds,
                   overlap, settings, quota, historyArray, storeVars, tokenEstimate>>

NextTruncate == TurnRan \/ Truncate \/ TruncateAgain

SpecTruncate == InitTruncate /\ [][NextTruncate]_vars

\* ------------------------------------------------ contents for estimateTokens
\* estimateTokens is given the content of a message: a string, or a list of
\* blocks whose text, content and input (as JSON, at least '{}') it counts.
\* lengths of a text and of what is appended to it: on either side of a
\* multiple of 4
CharCounts == {0, 1, 3, 4, 5}
EstimatedStrings == {StrMessage("user", Text("question", n)) : n \in CharCounts}
EstimatedBlocks ==
    {TextBlock(Text("reply", n)) : n \in CharCounts}
        \cup {ToolUseBlock(1, "read_file", n + 2) : n \in CharCounts}
        \cup {ToolResultBlock(1, Text("result", n)) : n \in CharCounts}
\* s + t, t being len characters long
Appended(x, len) == IF len = 0 THEN x ELSE Concat(x, "more", len)
\* the texts appended so far to a content
RECURSIVE AppendsIn(_)
AppendsIn(blocks) ==
    IF blocks = <<>> THEN 0
    ELSE Len(Head(blocks).text.tail) + Len(Head(blocks).content.tail) + AppendsIn(Tail(blocks))

InitEstimate ==
    /\ InitView
    /\ settings = DefaultSettings
    /\ quota = [turns |-> 0, rounds |-> 0, rich |-> 0, loads |-> 0, deletes |-> 0,
                overlap |-> MaxOverlapSteps]

EstimateUnchanged ==
    UNCHANGED <<conversationHistory, isGenerating, shouldStop, turns, started, toolRounds,
                overlap, settings, historyToSend, truncations, convVars, storeVars, quota>>

\* estimateTokens is called for the first time, with a string or with a
\* list of one block
FirstEstimated ==
    /\ tokenEstimate = NoEstimate
    /\ \E c \in EstimatedStrings \cup {BlockMessage("assistant", <<b>>) : b \in EstimatedBlocks} :
          tokenEstimate' = EstimateOf(c)
    /\ EstimateUnchanged

\* estimateTokens(s + t) after estimateTokens(s)
TextAppended ==
    LET c == tokenEstimate.content
    IN  /\ tokenEstimate # NoEstimate
        /\ c.isStr
        /\ Len(c.text.tail) < MaxAppends
        /\ \E len \in CharCounts :
              tokenEstimate' = EstimateOf([c EXCEPT !.text = Appended(@, len)])
        /\ EstimateUnchanged

\* estimateTokens of the list with one more block
BlockAppended ==
    LET c == tokenEstimate.content
    IN  /\ tokenEstimate # NoEstimate
        /\ ~c.isStr
        /\ Len(c.blocks) < MaxBlocks
        /\ \E b \in EstimatedBlocks :
              tokenEstimate' = EstimateOf([c EXCEPT !.blocks = Append(@, b)])
        /\ EstimateUnchanged

\* estimateTokens of the list with text appended to one of its blocks: to
\* the text of a text block, to the content of a tool_result block
BlockTextAppended ==
    LET c == tokenEstimate.content
    IN  /\ tokenEstimate # NoEstimate
        /\ ~c.isStr
        /\ AppendsIn(c.blocks) < MaxAppends
        /\ \E k \in 1..Len(c.blocks), len \in CharCounts :
              /\ c.blocks[k].type # "tool_use"
              /\ tokenEstimate' =
                    EstimateOf([c EXCEPT !.blocks[k] =
                                   IF @.type = "text" THEN [@ EXCEPT !.text = Appended(@, len)]
                                   ELSE [@ EXCEPT !.content = Appended(@, len)]])
        /\ EstimateUnchanged

NextEstimate == FirstEstimated \/ TextAppended \/ BlockAppended \/ BlockTextAppended

SpecEstimate == InitEstimate /\ [][NextEstimate]_vars

\* The view after onOpen restored a conversation of 20 messages whose first
\* message is a long note: no request of the earlier session found more than
\* maxHistoryMessages messages, so there is no summary yet.  The user sends
\* one message.
LongHistory ==
    TurnMessages([user |-> Text("note", 600000), rounds |-> <<>>, answered |-> TRUE], 1)
    \o TurnMessages([user |-> Text("question", 40), rounds |-> <<Text("result", 600)>>,
                     answered |-> TRUE], 2)
    \o TurnMessages([user |-> Text("question", 40), rounds |-> <<Text("result", 600)>>,
                     answered |-> TRUE], 3)
    \o TurnMessages([user |-> Text("question", 40), rounds |-> <<Text("result", 600)>>,
                     answered |-> TRUE], 4)
    \o TurnMessages([user |-> Text("question", 40), rounds |-> <<Text("result", 600)>>,
                     answered |-> TRUE], 5)
    \o TurnMessages([user |-> Text("question", 40), rounds |-> <<>>, answered |-> TRUE], 6)
InitSummary ==
    /\ InitCalls
    /\ settings = DefaultSettings
    /\ quota = [turns |-> 1, rounds |-> ViewRounds, rich |-> 0, loads |-> 0, deletes |-> 0,
                overlap |-> MaxOverlapSteps]
    /\ conversationHistory = LongHistory
    /\ conversationSummary = NoSummary
    /\ historyArray = 1
    /\ savedConversations =
          <<SavedConversation(1, StoredName, 1, 1, <<>>, NoSummary)>>
    /\ currentConversationId = 1
    /\ clock = [now |-> 2, ids |-> 1]

NextSummary ==
    \/ EnterKey
    \/ SendButtonClick
    \/ NewConversation
    \/ \E t \in Turns : UserMessagePushed(t)
    \/ \E t \in Turns : LoopStarted(t)
    \/ \E t \in Turns : ResponseOk(t)
    \/ \E t \in Turns : ResponseNot200(t)
    \/ \E t \in Turns : ToolReturned(t)
    \/ \E t \in Turns : AssistantShown(t)
    \/ \E t \in Turns : PartialShown(t)
    \/ \E t \in Turns : TruncationNoticeShown(t)
    \/ \E t \in Turns : StopNoticeShown(t)
    \/ \E t \in Turns : ConversationNamed(t)
    \/ \E t \in Turns : Saved(t)

SpecSummary == InitSummary /\ [][NextSummary]_vars

\* ================================================================ claims
ToolUseIds(content) ==
    LET s == SelectSeq(content, IsToolUse) IN [k \in 1..Len(s) |-> s[k].id]
ResultIds(blocks) ==
    LET s == SelectSeq(blocks, IsToolResult) IN [k \in 1..Len(s) |-> s[k].tool_use_id]
Last(s) == s[Len(s)]
IsPrefix(p, s) == Len(p) <= Len(s) /\ SubSeq(s, 1, Len(p)) = p
\* m1 directly followed by m2 somewhere in h
Adjacent(h, m1, m2) == \E i \in 1..(Len(h) - 1) : h[i] = m1 /\ h[i + 1] = m2
\* every message of a is in h, in the order of a
RECURSIVE Embeds(_, _)
Embeds(h, a) ==
    IF a = <<>> THEN TRUE
    ELSE IF h = <<>> THEN FALSE
    ELSE IF Head(h) = Head(a) THEN Embeds(Tail(h), Tail(a))
    ELSE Embeds(Tail(h), a)

\* the turn has left the loop: post-loop reports made, finally entered or next
Ended(r) == r.pc \in {"uiStop", "save"}
RequestSent(t) == turns'[t].calls > turns[t].calls

\* ---- C1
\* the number of tool_result blocks of message m that carry id
ResultsFor(m, id) ==
    Cardinality({k \in 1..Len(m.blocks) : IsToolResult(m.blocks[k]) /\ m.blocks[k].tool_use_id = id})
\* every tool_use block of h is answered by exactly one tool_result block of
\* the same id, and that one is in the user message right after it
AllAnswered(h) ==
    \A i \in 1..Len(h) : \A k \in 1..Len(h[i].blocks) :
        IsToolUse(h[i].blocks[k]) =>
            /\ i < Len(h)
            /\ h[i + 1].role = "user"
            /\ ResultsFor(h[i + 1], h[i].blocks[k].id) = 1
            /\ \A j \in 1..Len(h) : j # i + 1 => ResultsFor(h[j], h[i].blocks[k].id) = 0

\* C1: whenever sendMessage sends a model request, every tool_use block of the
\* conversation history is answered by exactly one tool_result block with its
\* id, in the user message that directly follows the assistant message.
C1_AnsweredAtRequest ==
    [][(\E t \in Turns : RequestSent(t)) => AllAnswered(conversationHistory')]_vars

\* ---- C3
\* C3: at most one sendMessage call is in progress at any time.
C3_SingleFlight == Cardinality(ActiveTurns) <= 1

\* ---- C2
\* while the tools of a response run: the ids passed to executeTool so far are
\* the first tool_use ids of the response in its order, one call is pending
\* and all earlier ones have returned their tool_result, in that order
ToolsInOrder(r) ==
    r.pc = "tool" =>
        /\ IsPrefix(r.executed, ToolUseIds(r.response.content))
        /\ Len(r.executed) = Len(r.toolResults) + 1
        /\ ResultIds(r.toolResults) = SubSeq(r.executed, 1, Len(r.toolResults))
        /\ r.calls = r.respCall
\* the step that ends the tool calls of a tool_use response: all were
\* executed, in order; one user message with their results, in the same
\* order, is appended; nothing else is
ResultsAppended(t) ==
    LET r == turns[t]
        ids == ToolUseIds(r.response.content)
    IN  (r.pc = "tool" /\ r.response.stop_reason = "tool_use" /\ turns'[t].pc # "tool") =>
            /\ turns'[t].executed = ids
            /\ Len(conversationHistory') = Len(conversationHistory) + 1
            /\ Last(conversationHistory').role = "user"
            /\ ~Last(conversationHistory').isStr
            /\ Len(Last(conversationHistory').blocks) = Len(ids)
            /\ ResultIds(Last(conversationHistory').blocks) = ids
            /\ turns'[t].calls <= r.calls + 1
\* a request that follows a tool_use response with tool_use blocks is sent in
\* the step that appends the results, not before
RequestAfterResults(t) ==
    LET r == turns[t]
    IN  (RequestSent(t) /\ r.response.stop_reason = "tool_use"
            /\ turns'[t].response = r.response /\ ToolUseIds(r.response.content) # <<>>) =>
            (r.pc = "tool" /\ NextTool(r.response.content, r.idx) = 0)

\* C2: for a tool_use response with tool_use blocks b1..bn the loop calls
\* executeTool for b1..bn in order, one at a time, then appends one user
\* message with the tool_result blocks in that order and with those ids, and
\* only then sends the next model request.
C2_ToolsInOrderThenResults ==
    [][\A t \in Turns :
          /\ ToolsInOrder(turns[t])
          /\ ResultsAppended(t)
          /\ RequestAfterResults(t)]_vars

\* a request has been sent after a tool_use response with two tool_use blocks
C2_Witness ==
    \E t \in Turns :
        /\ turns[t].pc = "request"
        /\ turns[t].response.stop_reason = "tool_use"
        /\ Len(turns[t].executed) = 2
        /\ turns[t].calls = turns[t].respCall + 1
        /\ ResultIds(Last(conversationHistory).blocks) = turns[t].executed

\* ---- C4
\* the tool_use message and the tool_result message the turn appended last
RoundTripKept(r, h) ==
    /\ Len(r.appended) >= 2
    /\ Adjacent(h, r.appended[Len(r.appended) - 1], Last(r.appended))
\* the last executeTool of a tool_use response returns while shouldStop is
\* set: the results are pushed and the loop condition is evaluated
StopFoundAfterTools(t) ==
    LET r == turns[t]
    IN  /\ r.pc = "tool"
        /\ r.response.stop_reason = "tool_use"
        /\ NextTool(r.response.content, r.idx) = 0
        /\ shouldStop
        /\ turns'[t] # r
\* the turn left the loop on the stop flag after a tool_use round-trip
StoppedAfterTools(r) ==
    /\ Ended(r)
    /\ r.response.stop_reason = "tool_use"
    /\ r.calls = r.respCall
    /\ "stopped" \in r.reports

\* C4: when the loop finds the stop flag set after a tool_use round-trip, it
\* sends no further request and reports the stop, and from then on the
\* assistant tool_use message and the tool_result message it appended are in
\* the conversation history, one after the other, as they were appended.
C4_StopKeepsRoundTrip ==
    [][\A t \in Turns :
          /\ StopFoundAfterTools(t) =>
                /\ turns'[t].pc = "uiStop"
                /\ turns'[t].calls = turns[t].calls
                /\ "stopped" \in turns'[t].reports
                /\ Last(turns'[t].appended).blocks = turns'[t].toolResults
          /\ StoppedAfterTools(turns'[t]) => RoundTripKept(turns'[t], conversationHistory')]_vars

\* ---- C5
MaxTokensWithTools(r) ==
    r.response.stop_reason = "max_tokens" /\ HasToolUse(r.response.content)

\* C5 as stated: after a max_tokens response with tool_use blocks the loop
\* runs the tools and then sends another model request in the same turn,
\* unless the turn is cancelled or the iteration cap is reached.
C5_ContinuesAfterMaxTokens ==
    \A t \in Turns :
        LET r == turns[t]
        IN  (Ended(r) /\ MaxTokensWithTools(r) /\ "stopped" \notin r.reports
                /\ r.iterations < maxIterations) =>
                r.calls > r.respCall

\* C5 amended: after a max_tokens response with tool_use blocks the loop runs
\* those tool calls in order, appends their tool_results, shows the
\* truncation notice and ends the turn: no further model request is sent.
C5_StopsAfterMaxTokens ==
    \A t \in Turns :
        LET r == turns[t]
            ids == ToolUseIds(r.response.content)
        IN  MaxTokensWithTools(r) =>
                /\ r.calls = r.respCall
                /\ r.pc \in {"tool", "uiTruncNotice", "uiStop", "save"}
                /\ r.pc = "tool" => IsPrefix(r.executed, ids)
                /\ r.pc # "tool" =>
                      /\ r.executed = ids
                      /\ "truncated" \in r.reports
                      /\ Len(r.appended) = r.mark + 2
                      /\ ResultIds(Last(r.appended).blocks) = ids

C5_Witness ==
    \E t \in Turns :
        /\ turns[t].pc = "save"
        /\ MaxTokensWithTools(turns[t])
        /\ Len(turns[t].executed) = 2
        /\ "stopped" \notin turns[t].reports
        /\ turns[t].iterations < maxIterations

\* ---- C6
AllOverloaded(s) == \A i \in 1..Len(s) : s[i] = 529
\* the onRetry calls and the delays of k retries
RetryCalls(k) == [i \in 1..k |-> <<i, retryDelays[i]>>]
RetryDelays(k) == SubSeq(retryDelays, 1, k)

\* C6: when the endpoint answers 529 k times in a row and then 200, k <= 3,
\* callClaude returns that response after k retries, having waited the first
\* k of 1000, 2000, 4000 ms in order; a 4th 529 in a row makes callClaude
\* throw; no call sends more than 4 requests.
C6_RetryBound ==
    \A t \in Turns :
        LET r == turns[t]
            s == r.statuses
            k == Len(s) - 1
        IN  /\ r.attempt <= maxRetries + 1
            /\ Len(s) <= maxRetries + 1
            /\ (Len(s) >= 1 /\ Last(s) = 200 /\ AllOverloaded(SubSeq(s, 1, k))) =>
                  /\ r.attempt = k + 1
                  /\ r.delays = RetryDelays(k)
                  /\ r.onRetry = RetryCalls(k)
                  /\ r.respCall = r.calls
            /\ (Len(s) \in 1..maxRetries /\ AllOverloaded(s)) =>
                  /\ r.pc \in {"backoff", "request"}
                  /\ r.onRetry = RetryCalls(Len(s))
                  /\ r.delays = RetryDelays(r.attempt - 1)
                  /\ r.attempt = IF r.pc = "backoff" THEN Len(s) ELSE Len(s) + 1
            /\ (Len(s) = maxRetries + 1 /\ AllOverloaded(s)) =>
                  /\ r.pc = "save"
                  /\ "error" \in r.reports
                  /\ r.attempt = maxRetries + 1
                  /\ r.delays = retryDelays
                  /\ r.respCall < r.calls

\* three 529 answers, then a 200 that callClaude returned
C6_Witness ==
    \E t \in Turns :
        /\ turns[t].statuses = <<529, 529, 529, 200>>
        /\ turns[t].delays = <<1000, 2000, 4000>>
        /\ turns[t].respCall = turns[t].calls

\* ---- C8
\* the turn ended at the cap, every one of its responses being tool_use
CapReached(r) ==
    /\ Ended(r)
    /\ r.iterations = maxIterations
    /\ r.response.stop_reason = "tool_use"
    /\ r.respCall = maxIterations

\* C8: a turn sends at most 10 model requests; a turn that reaches the cap
\* after 10 tool round-trips reports that the maximum of iterations was
\* reached, and every message it appended is in the conversation history.
C8_IterationCap ==
    \A t \in Turns :
        LET r == turns[t]
        IN  /\ r.calls <= maxIterations
            /\ CapReached(r) =>
                  /\ "maxIterations" \in r.reports
                  /\ Len(r.appended) >= 1 + 2 * maxIterations
                  /\ Embeds(conversationHistory, r.appended)

\* ---- C9
\* what holds of a turn whose current response is end_turn
EndTurnState(r) ==
    LET a == BlockMessage("assistant", r.response.content)
    IN  r.response.stop_reason = "end_turn" =>
            /\ r.calls = r.respCall
            /\ r.executed = <<>>
            /\ r.toolResults = <<>>
            /\ r.pc \in {"uiEnd", "uiStop", "save"}
            /\ r.pc = "uiEnd" => Len(r.appended) = r.mark
            /\ r.pc # "uiEnd" =>
                  /\ Len(r.appended) = r.mark + 1
                  /\ Last(r.appended) = a
                  /\ ~r.continueLoop
\* the step that takes the turn out of the await of the end_turn branch
EndTurnStep(t) ==
    LET r == turns[t]
    IN  (r.pc = "uiEnd" /\ turns'[t] # r) =>
            /\ conversationHistory' =
                  Append(conversationHistory, BlockMessage("assistant", r.response.content))
            /\ Ended(turns'[t])

\* C9: after an end_turn response the turn leaves the loop; one assistant
\* message with the content of the response is appended to the history, no
\* tool is executed and no further request is sent in the turn.
C9_EndTurnDone ==
    [][\A t \in Turns : EndTurnState(turns'[t]) /\ EndTurnStep(t)]_vars

C9_Witness ==
    \E t \in Turns :
        /\ turns[t].pc = "save"
        /\ turns[t].response.stop_reason = "end_turn"
        /\ Len(turns[t].appended) = turns[t].mark + 1
        /\ Len(conversationHistory) > 0
        /\ Last(conversationHistory) = BlockMessage("assistant", turns[t].response.content)

\* ---- C10
IsOtherFailure(status) == status \notin {200, 529}

\* C10 as stated: a non-200 answer that is not 529 ends callClaude, and that
\* call has made exactly one request, never called onRetry, waited no delay.
C10_OneRequestOnly ==
    \A t \in Turns :
        LET r == turns[t]
        IN  (\E i \in 1..Len(r.statuses) : IsOtherFailure(r.statuses[i])) =>
                /\ Len(r.statuses) = 1
                /\ r.attempt = 1
                /\ r.onRetry = <<>>
                /\ r.delays = <<>>

\* C10 amended: a non-200 answer that is not 529 is never retried: it is the
\* last answer of its callClaude call, which throws at once, with no onRetry
\* call and no delay after it; the requests, onRetry calls and delays made
\* before it are those of the 529 answers that came first, so when it answers
\* the first request, exactly one request is made, onRetry is never called
\* and no delay is waited.
C10_NeverRetried ==
    \A t \in Turns :
        LET r == turns[t]
            s == r.statuses
        IN  \A i \in 1..Len(s) :
                IsOtherFailure(s[i]) =>
                    /\ i = Len(s)
                    /\ AllOverloaded(SubSeq(s, 1, i - 1))
                    /\ r.pc = "save"
                    /\ "error" \in r.reports
                    /\ r.attempt = i
                    /\ r.onRetry = RetryCalls(i - 1)
                    /\ r.delays = RetryDelays(i - 1)
                    /\ r.respCall < r.calls

\* a 429 answered the first request of a call
C10_Witness ==
    \E t \in Turns :
        /\ turns[t].statuses = <<429>>
        /\ turns[t].pc = "save"
        /\ turns[t].attempt = 1

\* ---- C7
AllBlocks(h) == UNION {{h[i].blocks[k] : k \in 1..Len(h[i].blocks)} : i \in 1..Len(h)}
ToolUseIdsIn(h) == {b.id : b \in {x \in AllBlocks(h) : IsToolUse(x)}}
ResultIdsIn(h) == {b.tool_use_id : b \in {x \in AllBlocks(h) : IsToolResult(x)}}

\* C7: the history truncateToolResults returns holds, for every id whose
\* tool_use and tool_result are both in its input, either both the tool_use
\* and the tool_result or neither.
C7_PairsKept ==
    truncations = 1 =>
        \A id \in ToolUseIdsIn(conversationHistory) \cap ResultIdsIn(conversationHistory) :
            (id \in ToolUseIdsIn(historyToSend)) <=> (id \in ResultIdsIn(historyToSend))

\* ---- C14
KnownStopReasons == {"end_turn", "tool_use", "max_tokens"}
\* the last response the turn received has a stop_reason the loop does not know
UnexpectedStop(r) ==
    /\ r.respCall > 0
    /\ r.response.stop_reason \notin KnownStopReasons

\* C14: a response whose stop_reason is none of end_turn, tool_use and
\* max_tokens ends the turn with the unexpected-stop-reason error: the step
\* that receives it leaves the history as it is, and the turn is then in
\* finally with the error shown, having pushed no message since the response
\* came, passed no block to executeTool and sent no further request.
C14_UnexpectedStopFails ==
    [][\A t \in Turns :
          UnexpectedStop(turns'[t]) =>
              /\ turns[t] # turns'[t] => conversationHistory' = conversationHistory
              /\ turns'[t].pc = "save"
              /\ turns'[t].calls = turns'[t].respCall
              /\ turns'[t].error = "unexpected stop reason"
              /\ "error" \in turns'[t].reports
              /\ Len(turns'[t].appended) = turns'[t].mark
              /\ turns'[t].executed = <<>>
              /\ turns'[t].toolResults = <<>>]_vars
C14_Witness ==
    \E t \in Turns :
        /\ UnexpectedStop(turns[t])
        /\ turns[t].response.stop_reason = "stop_sequence"
        /\ turns[t].iterations > 1
        /\ ~isGenerating

\* ---- C13
\* turn t was awaiting executeTool for a block and the await settled
ToolSettled(t) == turns[t].pc = "tool" /\ turns'[t] # turns[t]

\* C13: a tool failure never aborts the turn.  When the executeTool call for
\* a tool_use block settles, whether the tool is unknown or threw, the turn
\* does not enter catch: one tool_result block with the string returned and
\* the id of the block is added to the results, and the loop goes on with
\* the next tool_use block of the response or, after the last one, appends
\* the user message with the results and (after a tool_use response, when
\* neither stopped nor at the cap) sends the next request.
C13_ToolFailureGoesOn ==
    [][\A t \in Turns :
          LET r == turns[t]
              r2 == turns'[t]
              content == r.response.content
              block == content[r.idx]
              k == NextTool(content, r.idx)
          IN  ToolSettled(t) =>
                /\ r2.error = ""
                /\ "error" \notin r2.reports
                /\ Len(r2.toolResults) = Len(r.toolResults) + 1
                /\ SubSeq(r2.toolResults, 1, Len(r.toolResults)) = r.toolResults
                /\ Last(r2.toolResults).type = "tool_result"
                /\ Last(r2.toolResults).tool_use_id = block.id
                /\ block.name \notin KnownTools =>
                       Last(r2.toolResults).content = Text("Error: Unknown tool: run_command", 32)
                /\ k # 0 => /\ r2.pc = "tool"
                            /\ r2.idx = k
                            /\ conversationHistory' = conversationHistory
                /\ k = 0 => /\ conversationHistory' =
                                  Append(conversationHistory, BlockMessage("user", r2.toolResults))
                            /\ (r.response.stop_reason = "tool_use" /\ ~shouldStop
                                    /\ r.iterations < maxIterations) =>
                                  (r2.pc = "request" /\ r2.calls = r.calls + 1)]_vars
\* a tool that threw was followed by the next request
C13_Witness ==
    \E t \in Turns :
        LET r == turns[t]
        IN  /\ r.pc = "request"
            /\ r.iterations = 2
            /\ Len(r.toolResults) = 2
            /\ \E k \in 1..2 : r.toolResults[k].content = Text("Error executing", 45)
\* an unknown tool was followed by the next block
C13_WitnessUnknown ==
    \E t \in Turns :
        LET r == turns[t]
        IN  /\ r.pc = "tool"
            /\ r.idx = 2
            /\ r.toolResults = <<ToolResultBlock(r.response.content[1].id,
                                                  Text("Error: Unknown tool: run_command", 32))>>

\* ---- C15
\* turn t is between its first request and its terminal state
InLoop(r) == InProgress(r) /\ r.calls >= 1 /\ ~Ended(r)

\* C15: while a turn is between its first request and its terminal state,
\* a step changes the conversation history or the summary (or makes another
\* array the history) only if it is a step of that turn.
C15_OnlyTheLoopChanges ==
    [][\A t \in Turns :
          (InLoop(turns[t])
              /\ <<conversationHistory, conversationSummary, historyArray>>' #
                     <<conversationHistory, conversationSummary, historyArray>>)
            => turns'[t] # turns[t]]_vars

\* ---- C12
\* the step in which the request of turn t fails for good: callClaude throws
RequestFailed(t) ==
    /\ turns[t].pc = "request"
    /\ turns'[t].pc = "save"
    /\ turns'[t].error = "request failed"

\* C12: when a model request fails terminally, the history the turn ends
\* with is the history as it was when that callClaude call was made.
C12_FailureKeepsHistory ==
    [][\A t \in Turns :
          RequestFailed(t) => conversationHistory' = turns'[t].sent]_vars

\* ---- C16
IsLowValue(m) == m.isStr /\ IsAcknowledgment(m.text)

\* C16: smartPruneHistory never removes any of the last 5 messages of the
\* history, whatever they say: the last 5 messages of its result (all of
\* them when the history has at most 5) are the last messages of the
\* history, and a history of at most 5 messages is returned whole.
C16_LastFiveKept ==
    LET h == conversationHistory
        pruned == smartPruneHistory(h, settings)
        k == IF Len(h) < 5 THEN Len(h) ELSE 5
    IN  /\ Len(pruned) >= k
        /\ SubSeq(pruned, Len(pruned) - k + 1, Len(pruned)) = SubSeq(h, Len(h) - k + 1, Len(h))
        /\ Len(h) <= 5 => pruned = h
\* pruning removed a low-value message and kept one among the last five
C16_Witness ==
    LET h == conversationHistory
        pruned == smartPruneHistory(h, settings)
    IN  /\ settings.enableSmartPruning
        /\ Len(h) > 5
        /\ Len(pruned) < Len(h)
        /\ IsLowValue(h[Len(h) - 4])

\* ---- C17
\* a tool result or a text that carries a truncation marker
IsTruncated(m) ==
    \/ m.isStr /\ m.text.tail # <<>>
    \/ \E k \in 1..Len(m.blocks) : m.blocks[k].content.tail # <<>>
WithinCap(t) == Len(t) <= settings.maxHistoryMessages

\* C17: truncateToolResults is idempotent on its own output: when the
\* truncation t of a history has at most maxHistoryMessages messages,
\* truncateToolResults(t) is t, message for message, with no second marker.
C17_TruncateIdempotent ==
    [][(truncations = 1 /\ truncations' = 2 /\ WithinCap(historyToSend))
          => historyToSend' = historyToSend]_vars
\* the second call was made on a history that the first call had shortened
\* and in which it had marked a tool result
C17_Witness ==
    /\ truncations = 2
    /\ WithinCap(historyToSend)
    /\ Len(historyToSend) < Len(conversationHistory)
    /\ \E i \in 1..Len(historyToSend) : IsTruncated(historyToSend[i])

\* ---- C11
\* the conversations a store holds
Conversations(store) == {store[i] : i \in {j \in 1..Len(store) : ~store[j].hole}}
\* the save of turn t writes its conversation to the store
SaveWrites(t) == saves[t].pc = "naming" /\ saves'[t].pc = "settings"
\* the conversation the save of turn t wrote
WrittenBy(t, store) ==
    {c \in Conversations(store) : c.id = saves[t].conversationId /\ c.timestamp = clock.now}
IsOldest(e, cs) == \A x \in cs : e.timestamp <= x.timestamp

\* C11: the store never holds more than 10 conversations, whatever saves
\* and deletes were made; a save that adds an 11th conversation to a store
\* of 10 evicts exactly one conversation, the one with the oldest
\* timestamp, and keeps the other nine and the new one.
C11_TenKeptOldestEvicted ==
    [][/\ Cardinality(Conversations(savedConversations')) <= 10
       /\ Len(savedConversations') <= 10
       /\ \A t \in Turns :
             (SaveWrites(t) /\ saves[t].existingIndex = 0
                 /\ Cardinality(Conversations(savedConversations)) = 10) =>
                LET before == Conversations(savedConversations)
                    after == Conversations(savedConversations')
                    new == WrittenBy(t, savedConversations')
                IN  /\ Cardinality(new) = 1
                    /\ Cardinality(after) = 10
                    /\ \E e \in before :
                          /\ IsOldest(e, before \cup new)
                          /\ after = (before \ {e}) \cup new]_vars
\* a new conversation was saved to a store of 10 whose oldest conversation
\* was not the first of the array: the oldest is gone, the new one is there
C11_Witness ==
    /\ \E t \in Turns : saves[t].pc = "settings" /\ saves[t].existingIndex = 0
    /\ used.deletes = 0
    /\ Cardinality(Conversations(savedConversations)) = 10
    /\ maxSaved + 1 \in StoredIds(savedConversations)
    /\ 1 \in StoredIds(savedConversations)
    /\ 8 \notin StoredIds(savedConversations)

\* ---- C19
\* the store holds a conversation with this id and a name
StoredWithName(store, id) ==
    \E c \in Conversations(store) : c.id = id /\ c.name # NoName
\* the save of turn t starts: saveCurrentConversation is called
SaveStarts(t) == saves[t].pc = "none" /\ saves'[t].pc # "none"

\* C19: a save of a conversation that the store already holds under its id
\* with a name issues no naming request, and the conversation keeps that
\* name when the save writes it.
C19_NamedKeepsName ==
    [][\A t \in Turns :
          /\ (SaveStarts(t) /\ StoredWithName(savedConversations, currentConversationId))
                => saves'[t].pc # "naming"
          /\ (SaveWrites(t) /\ StoredWithName(savedConversations, saves[t].conversationId))
                => \A c \in WrittenBy(t, savedConversations') :
                      \E old \in Conversations(savedConversations) :
                          old.id = c.id /\ old.name = c.name]_vars

\* ---- C18
\* turn t reaches its terminal state and enters finally
TurnEnds(t) == turns[t].pc # "save" /\ turns'[t].pc = "save"

\* C18: with auto-save enabled, a turn that reaches its terminal state is
\* followed by a save (the save is not skipped), and when the save writes,
\* whatever name the naming gave, the store holds the current conversation
\* with the messages the history had at the end of the turn.
C18_TurnSaved ==
    [][\A t \in Turns :
          /\ (TurnEnds(t) /\ settings.autoSaveConversations) => saves'[t].pc = "naming"
          /\ SaveWrites(t) =>
                \E i \in 1..Len(savedConversations') :
                    LET c == savedConversations'[i]
                    IN  /\ ~c.hole
                        /\ c.id = currentConversationId'
                        /\ c.id = saves[t].conversationId
                        /\ (IF c.arr = historyArray' THEN conversationHistory' ELSE c.messages)
                              = saves[t].ended]_vars

\* ---- C20
\* what the request that turn t has just sent leaves out of the history
\* because truncateToolResults took the summarization branch
OmittedBySummarizing(r) ==
    IF SummarizeBranch(r.sent, settings) THEN ToSummarize(r.sent, settings) ELSE <<>>
\* the summary holds the entry of every message of omitted, in their order
Covers(summary, omitted) == Embeds(summary, summarizeConversation(omitted))

\* C20: every model request whose outgoing history omits messages because
\* truncateToolResults took the summarization branch carries a system
\* prompt that begins with a summary covering the omitted messages.
C20_SummaryCoversOmitted ==
    [][\A t \in Turns :
          (RequestSent(t) /\ OmittedBySummarizing(turns'[t]) # <<>>) =>
              /\ turns'[t].systemPrompt # NoSummary
              /\ Covers(turns'[t].systemPrompt, OmittedBySummarizing(turns'[t]))]_vars

\* ---- C21
\* string t is string s with something appended
ExtendsText(s, t) == t.src = s.src /\ t.n = s.n /\ IsPrefix(s.tail, t.tail)
\* content d is content c with text appended (a string), or with a block
\* appended, or with text appended to one of its blocks
ExtendsContent(c, d) ==
    /\ c.isStr = d.isStr
    /\ c.isStr => ExtendsText(c.text, d.text)
    /\ ~c.isStr =>
          \/ \E b \in EstimatedBlocks : d.blocks = Append(c.blocks, b)
          \/ /\ Len(d.blocks) = Len(c.blocks)
             /\ \A k \in 1..Len(c.blocks) :
                   /\ ExtendsText(c.blocks[k].text, d.blocks[k].text)
                   /\ ExtendsText(c.blocks[k].content, d.blocks[k].content)
                   /\ d.blocks[k].inputLen = c.blocks[k].inputLen

\* C21: estimateTokens is monotonic: the estimate of a text with something
\* appended, of a block list with one more block, or of a block list with
\* text appended to one of its blocks, is never below the estimate of the
\* text or list it was made from.
C21_EstimateMonotonic ==
    [][(tokenEstimate # NoEstimate /\ ExtendsContent(tokenEstimate.content, tokenEstimate'.content))
          => /\ tokenEstimate'.tokens = estimateTokens(tokenEstimate'.content)
             /\ tokenEstimate'.tokens >= tokenEstimate.tokens]_vars
\* a block was appended to a list and text to one of its blocks, and the
\* estimate is above that of the first block alone
C21_Witness ==
    LET c == tokenEstimate.content
    IN  /\ ~c.isStr
        /\ Len(c.blocks) = 2
        /\ AppendsIn(c.blocks) = 1
        /\ tokenEstimate.tokens > estimateTokens(BlockMessage("assistant", <<c.blocks[1]>>))
\* text was appended to a string and the estimate stayed the same
C21_WitnessSame ==
    LET c == tokenEstimate.content
    IN  /\ c.isStr
        /\ c.text.n > 0
        /\ TailLen(c.text.tail) > 0
        /\ tokenEstimate.tokens = CeilDiv(c.text.n, 4)

\* ---- C22
MaxTokensTextOnly(r) ==
    r.response.stop_reason = "max_tokens" /\ ~HasToolUse(r.response.content)
\* what holds of a turn whose current response is max_tokens without tool_use
TruncatedState(r) ==
    LET a == BlockMessage("assistant", r.response.content)
    IN  MaxTokensTextOnly(r) =>
            /\ r.calls = r.respCall
            /\ r.executed = <<>>
            /\ r.toolResults = <<>>
            /\ r.pc \in {"uiTruncText", "uiTruncNotice", "uiStop", "save"}
            /\ r.pc = "uiTruncText" => Len(r.appended) = r.mark
            /\ r.pc # "uiTruncText" =>
                  /\ Len(r.appended) = r.mark + 1
                  /\ Last(r.appended) = a
                  /\ "truncated" \in r.reports
            /\ Ended(r) => ~r.continueLoop
\* the steps that take the turn through the branch: the partial content is
\* pushed as one assistant message, then the notice ends the loop
TruncatedSteps(t) ==
    LET r == turns[t]
    IN  /\ (MaxTokensTextOnly(r) /\ r.pc = "uiTruncText" /\ turns'[t] # r) =>
              /\ conversationHistory' =
                    Append(conversationHistory, BlockMessage("assistant", r.response.content))
              /\ turns'[t].pc = "uiTruncNotice"
        /\ (MaxTokensTextOnly(r) /\ r.pc = "uiTruncNotice" /\ turns'[t] # r) =>
              /\ conversationHistory' = conversationHistory
              /\ Ended(turns'[t])

\* C22: after a max_tokens response without a tool_use block the loop
\* appends exactly one assistant message holding the partial content, shows
\* the truncation notice and stops: no tool is executed and no further
\* request is sent in the turn.
C22_TruncatedTextStops ==
    [][\A t \in Turns : TruncatedState(turns'[t]) /\ TruncatedSteps(t)]_vars
\* a turn ended on such a response that answered its second request
C22_Witness ==
    \E t \in Turns :
        /\ turns[t].pc = "save"
        /\ MaxTokensTextOnly(turns[t])
        /\ turns[t].respCall = 2
        /\ "truncated" \in turns[t].reports
        /\ Len(conversationHistory) > 0
        /\ Last(conversationHistory) = BlockMessage("assistant", turns[t].response.content)

\* ---- C23
\* a response with tool_use blocks arrives for the pending request of turn t
ToolsReceived(t) ==
    /\ turns[t].pc = "request"
    /\ turns'[t].respCall = turns[t].calls
    /\ turns'[t].response.stop_reason \in {"tool_use", "max_tokens"}
    /\ HasToolUse(turns'[t].response.content)
\* the turn left the loop on the stop flag, its last response having tools
StoppedWithTools(r) ==
    /\ Ended(r)
    /\ "stopped" \in r.reports
    /\ r.calls = r.respCall
    /\ HasToolUse(r.response.content)

\* C23: the stop flag is only looked at by the loop condition.  With the
\* flag set, a response with tool_use blocks that arrives still has its
\* first tool executed, every executeTool call that returns is followed by
\* the next tool_use block of the response, and after the last one the user
\* message with all the tool_results is appended, in the step in which the
\* loop halts; a turn that halted on the flag after such a response has
\* executed every tool_use block and appended the results.
C23_StopAfterAllTools ==
    [][\A t \in Turns :
          LET r == turns[t]
              r2 == turns'[t]
              content == r.response.content
              k == NextTool(content, r.idx)
          IN  /\ (shouldStop /\ ToolsReceived(t)) =>
                    /\ r2.pc = "tool"
                    /\ r2.executed = <<ToolUseIds(r2.response.content)[1]>>
                    /\ conversationHistory' =
                          Append(conversationHistory,
                                 BlockMessage("assistant", r2.response.content))
              /\ (shouldStop /\ ToolSettled(t) /\ k # 0) =>
                    /\ r2.pc = "tool"
                    /\ r2.executed = Append(r.executed, content[k].id)
                    /\ Len(r2.toolResults) = Len(r.toolResults) + 1
                    /\ conversationHistory' = conversationHistory
              /\ (shouldStop /\ ToolSettled(t) /\ k = 0) =>
                    /\ r2.executed = ToolUseIds(content)
                    /\ ResultIds(r2.toolResults) = ToolUseIds(content)
                    /\ conversationHistory' =
                          Append(conversationHistory, BlockMessage("user", r2.toolResults))
                    /\ r2.calls = r.calls
                    /\ r.response.stop_reason = "tool_use" =>
                          (r2.pc = "uiStop" /\ "stopped" \in r2.reports)
              /\ StoppedWithTools(r2) =>
                    /\ r2.executed = ToolUseIds(r2.response.content)
                    /\ Len(r2.appended) = r2.mark + 2
                    /\ Last(r2.appended) = BlockMessage("user", r2.toolResults)
                    /\ ResultIds(r2.toolResults) = r2.executed]_vars
\* the flag was set while the request was in flight; a response with two
\* tool_use blocks came, both were executed, and the loop halted
C23_Witness ==
    \E t \in Turns :
        /\ turns[t].pc = "uiStop"
        /\ turns[t].iterations = 1
        /\ turns[t].response.stop_reason = "tool_use"
        /\ Len(turns[t].executed) = 2
        /\ Len(Last(conversationHistory).blocks) = 2
        /\ shouldStop
\* the flag is set while the second tool of a response is being executed
C23_WitnessDuringTools ==
    \E t \in Turns :
        /\ turns[t].pc = "tool"
        /\ Len(turns[t].executed) = 2
        /\ shouldStop

\* ---- C24
\* C24: the history truncateToolResults returns has at most
\* maxHistoryMessages messages, whichever branch the cap takes.
C24_AtMostMaxHistory ==
    truncations = 1 => Len(historyToSend) <= settings.maxHistoryMessages
\* the same with the summarization branch left aside
C24_SimpleTrimWithinCap ==
    (truncations = 1 /\ ~SummarizeBranch(conversationHistory, settings)) =>
        Len(historyToSend) <= settings.maxHistoryMessages

\* ---- C25
\* a tool result over 500 characters that carries no marker
HasLongResult(m) ==
    \E k \in 1..Len(m.blocks) :
        /\ IsToolResult(m.blocks[k])
        /\ TextLen(m.blocks[k].content) > MAX_TOOL_RESULT_LENGTH
        /\ m.blocks[k].content.tail = <<>>

NoOverlap == \A t \in Turns : ~saves[t].overlapped
UniqueIds(store) ==
    \A i, j \in 1..Len(store) :
        (i # j /\ ~store[i].hole /\ ~store[j].hole) => store[i].id # store[j].id
\* ids a conversation may have
AnyIds == 1..(maxSaved + 2)
\* a deleteConversation(id) call was made in this step
Deleted(id) ==
    /\ used'.deletes = used.deletes + 1
    /\ id \in StoredIds(savedConversations)
    /\ savedConversations' = deleteConversation(savedConversations, id)

\* C26: as long as saves and deletes do not overlap, no two stored
\* conversations share an id; a save of a conversation whose id is stored
\* replaces that entry, a save sets currentConversationId to the id it
\* saved, and loadConversation of that id then returns the messages and the
\* summary the save was given; loadConversation of an id that was deleted,
\* or that is not stored, returns null.
C26_StoreKeyedById ==
    [][NoOverlap' =>
          /\ UniqueIds(savedConversations')
          /\ ~HasHole(savedConversations')
          /\ \A t \in Turns :
                SaveWrites(t) =>
                    /\ currentConversationId' = saves[t].conversationId
                    /\ saves[t].conversationId \in StoredIds(savedConversations) =>
                          Len(savedConversations') = Len(savedConversations)
                    /\ loadConversation(savedConversations, saves[t].conversationId)' =
                          [result |-> "found", arr |-> saves[t].arr,
                           messages |-> saves[t].ended, summary |-> saves[t].summary]
          /\ \A id \in AnyIds :
                /\ Deleted(id) => loadConversation(savedConversations, id)' = Null
                /\ id \notin StoredIds(savedConversations') =>
                      loadConversation(savedConversations, id)' = Null]_vars
\* a conversation was deleted, then the current conversation, which the
\* store held, was saved again
C26_Witness ==
    \E t \in Turns :
        /\ saves[t].pc = "settings"
        /\ saves[t].existingIndex >= 1
        /\ ~saves[t].overlapped
        /\ used.deletes >= 1
        /\ currentConversationId = saves[t].conversationId
        /\ loadConversation(savedConversations, currentConversationId).result = "found"
        /\ Len(savedConversations) = maxSaved - 1

\* ---- C27
\* the last response of the turn was end_turn and the turn has left the loop
Done(r) == Ended(r) /\ r.response.stop_reason = "end_turn" /\ r.calls = r.respCall

\* C27: a turn reports one terminal outcome: a turn whose last response was
\* end_turn reports neither the iteration cap nor the stop, and no turn
\* reports both the iteration cap and the stop.
C27_OneOutcome ==
    \A t \in Turns :
        LET r == turns[t]
        IN  /\ Done(r) => r.reports \cap {"maxIterations", "stopped"} = {}
            /\ ~({"maxIterations", "stopped"} \subseteq r.reports)

\* ---- C28
\* the stored conversations with another id than the save of turn t writes
OthersThan(t, store) == {c \in Conversations(store) : c.id # saves[t].conversationId}

\* C28: when a save resumes from its naming request, whatever ran in the
\* meantime, every stored conversation with another id is still stored as
\* it was, except the one with the oldest timestamp when the store of 10 is
\* full, and no two entries have the same id.
C28_WritesOnlyItsOwn ==
    [][\A t \in Turns :
          SaveWrites(t) =>
              LET before == Conversations(savedConversations)
                  lost == OthersThan(t, savedConversations) \ Conversations(savedConversations')
              IN  /\ Cardinality(lost) <= 1
                  /\ \A e \in lost :
                        /\ Cardinality(before) = maxSaved
                        /\ IsOldest(e, before \cup WrittenBy(t, savedConversations'))
                  /\ UniqueIds(savedConversations')
                  /\ ~HasHole(savedConversations')]_vars

\* ---- C29
\* C29: with auto-save disabled no step of a turn changes the messages of a
\* stored conversation: a conversation that is stored before and after a
\* step has the same messages after it as before.
C29_StoredMessagesKept ==
    [][~settings.autoSaveConversations =>
          \A i \in 1..Len(savedConversations), j \in 1..Len(savedConversations') :
              savedConversations'[j].id = savedConversations[i].id =>
                  MessagesOf(savedConversations[j])' = MessagesOf(savedConversations[i])]_vars
\* ---- C30
\* sendMessage call t was made; it has run its finally block
TurnStarted(r) == r.pc # "idle"
Terminal(r) == r.pc \in {"save", "done"}
\* between `isGenerating = true` and finally
BeforeFinally(r) ==
    r.pc \in {"request", "backoff", "tool", "uiEnd", "uiTruncText", "uiTruncNotice", "uiStop"}
\* call t runs its finally block in this step
ReachesTerminal(t) == ~Terminal(turns[t]) /\ Terminal(turns'[t])
\* call t, its user message shown, sets the flags and tests the while condition
BeginsLoop(t) == turns[t].pc = "uiUser" /\ turns'[t].pc # "uiUser"
\* A call that was made stays made and one that has run finally stays so, so
\* `every call made runs finally in the end' is: from some point on every
\* call made has run it.
EveryTurnEnds == <>[](\A t \in Turns : TurnStarted(turns[t]) => Terminal(turns[t]))
FlagsResetAtEnd ==
    \A t \in Turns : ReachesTerminal(t) => ~isGenerating' /\ ~shouldStop'
FlagsDownBetweenTurns ==
    (\A t \in Turns : ~BeforeFinally(turns[t])) => ~isGenerating /\ ~shouldStop
LaterTurnNotCancelled ==
    \A t \in Turns : BeginsLoop(t) => turns'[t].pc = "request" /\ ~shouldStop'
\* C30: every sendMessage call that was made runs its finally block in the
\* end; the step that runs it leaves isGenerating and shouldStop false, and
\* both stay false while no call is between the two; a call that begins its loop
\* begins it with shouldStop false and sends its first request, whatever
\* stop was asked for during an earlier call.
C30_TurnsEndWithFlagsReset ==
    /\ EveryTurnEnds
    /\ [][FlagsResetAtEnd /\ LaterTurnNotCancelled]_vars
    /\ []FlagsDownBetweenTurns
\* the first call was stopped and has run finally, both flags are false, and
\* a later call is waiting to begin
C30_Witness ==
    /\ turns[1].pc = "save"
    /\ "stopped" \in turns[1].reports
    /\ ~isGenerating /\ ~shouldStop
    /\ turns[2].pc = "parse"
\* the later call is in its loop after the first one has returned
C30_WitnessLater == turns[1].pc = "done" /\ turns[2].pc = "request" /\ ~shouldStop
\* a call ended by each of the other outcomes
C30_WitnessCap ==
    \E t \in Turns : turns[t].pc = "save" /\ turns[t].reports = {"maxIterations"}
                     /\ ~isGenerating /\ ~shouldStop
C30_WitnessError ==
    \E t \in Turns : turns[t].pc = "save" /\ "error" \in turns[t].reports
                     /\ ~isGenerating /\ ~shouldStop
C30_WitnessEndTurn ==
    \E t \in Turns : turns[t].pc = "save" /\ turns[t].reports = {}
                     /\ turns[t].response.stop_reason = "end_turn"
C30_WitnessMaxTokens ==
    \E t \in Turns : turns[t].pc = "save" /\ turns[t].response.stop_reason = "max_tokens"
                     /\ ~isGenerating /\ ~shouldStop

====
